---- MODULE Spec2Model ----
(***************************************************************************)
(* A model of fleeting: the Docker context artifact (docker_context.rs),   *)
(* the bring-up of worker.rs (run_task) and the launcher / worker          *)
(* protocol of cli.rs.                                                     *)
(***************************************************************************)
EXTENDS Integers, Sequences, FiniteSets, TLC

(***************************************************************************)
(* Part 1: docker_context.rs                                               *)
(***************************************************************************)

\* The OS processes that may own a DockerContext.
Procs == {"p1", "p2"}

\* The value of --context_name when it is not given.
NoName == "<none>"

\* Values of --context_name.
CustomNames == {"custom"}

\* format!("fleeting-{}", std::process::id())
DefaultName == [p \in Procs |-> IF p = "p1" THEN "fleeting-p1" ELSE "fleeting-p2"]

ContextNames == CustomNames \cup {DefaultName[p] : p \in Procs}

\* custom || fleeting-<pid>
ContextNameOf(p, custom) == IF custom = NoName THEN DefaultName[p] ELSE custom

\* sha256(name), hex encoded: a collision-free digest, one directory name per
\* context name.
sha256 ==
    [n \in ContextNames |->
        CASE n = "custom"      -> "9a2f"
          [] n = "fleeting-p1" -> "03c1"
          [] OTHER             -> "e7b4"]

Hashes == {sha256[n] : n \in ContextNames}

\* The files DockerContext::new writes.
MetaFiles == {"meta.json"}
TlsFiles == {"docker/ca.pem", "docker/cert.pem", "docker/key.pem"}

\* A directory of the file system: whether it exists, who created it ("pre":
\* it was there before the run), and its files with who wrote each last.
NoDir == [exists |-> FALSE, by |-> "none", files |-> {}]

PreDir(fs) == [exists |-> TRUE, by |-> "pre", files |-> {<<f, "pre">> : f \in fs}]

\* fs::create_dir_all: creates what is missing, succeeds on an existing directory.
create_dir_all(dir, p) ==
    IF dir.exists THEN dir ELSE [exists |-> TRUE, by |-> p, files |-> {}]

\* fs::write: creates or replaces the file.
write(dir, f, p) ==
    [dir EXCEPT !.files = {x \in @ : x[1] # f} \cup {<<f, p>>}]

FileNames(dir) == {x[1] : x \in dir.files}

VARIABLES
    meta_dir,          \* <home>/.docker/contexts/meta/<hash>, by hash
    tls_dir,           \* <home>/.docker/contexts/tls/<hash>, by hash
    ctxPc,             \* where each process is in DockerContext::new / its use
    ctxName,           \* DockerContext.name
    ctxErr,            \* the error DockerContext::new returned
    keepalive_handle,  \* RemoteHandle of the keepalive task: pending, or its result
    dockerd_handle,    \* RemoteHandle of the dockerd task: pending, or its result
    wrapResult,        \* what wrap() returned
    ctxLog             \* log::error! lines of Drop

ctxVars ==
    <<meta_dir, tls_dir, ctxPc, ctxName, ctxErr, keepalive_handle, dockerd_handle,
      wrapResult, ctxLog>>

MetaOf(p) == meta_dir[sha256[ctxName[p]]]
TlsOf(p) == tls_dir[sha256[ctxName[p]]]

\* What a file system can hold for one context name before the program runs:
\* nothing, a tls directory alone, or the whole artifact of an earlier run.
PreStates == {"none", "tlsOnly", "full"}

\* The file system before the program runs: at most one context name has
\* something left on disk.
FsInit ==
    \E h0 \in Hashes, pre \in PreStates :
        /\ meta_dir = [h \in Hashes |->
                        IF h = h0 /\ pre = "full" THEN PreDir(MetaFiles) ELSE NoDir]
        /\ tls_dir = [h \in Hashes |->
                        IF h = h0 /\ pre # "none" THEN PreDir(TlsFiles) ELSE NoDir]

\* Processes in `active` may create a DockerContext; the others never do.
CtxInit(active) ==
    /\ FsInit
    /\ ctxPc = [p \in Procs |-> IF p \in active THEN "idle" ELSE "off"]
    /\ ctxName = [p \in Procs |-> NoName]
    /\ ctxErr = [p \in Procs |-> "none"]
    /\ keepalive_handle = [p \in Procs |-> "pending"]
    /\ dockerd_handle = [p \in Procs |-> "pending"]
    /\ wrapResult = [p \in Procs |-> "none"]
    /\ ctxLog = [p \in Procs |-> <<>>]

\* DockerContext::new returns Err(e): no DockerContext value exists, so no Drop runs.
NewErr(p, e) ==
    /\ ctxPc' = [ctxPc EXCEPT ![p] = "newErr"]
    /\ ctxErr' = [ctxErr EXCEPT ![p] = e]

\* DockerContext::new, up to the computed paths (lines 25-40).
NewBegin(p, custom) ==
    /\ ctxPc[p] = "idle"
    /\ ctxName' = [ctxName EXCEPT ![p] = ContextNameOf(p, custom)]
    /\ \/ /\ ctxPc' = [ctxPc EXCEPT ![p] = "check"]
          /\ UNCHANGED ctxErr
       \/ NewErr(p, "cannot locate home dir")
    /\ UNCHANGED <<meta_dir, tls_dir, keepalive_handle, dockerd_handle, wrapResult, ctxLog>>

\* DockerContext::new as it would be without the check of line 41.
NewCheckExistsNever(p) ==
    /\ ctxPc[p] = "check"
    /\ ctxPc' = [ctxPc EXCEPT ![p] = "mkMeta"]
    /\ UNCHANGED <<ctxErr, meta_dir, tls_dir, ctxName, keepalive_handle, dockerd_handle,
                   wrapResult, ctxLog>>

\* if meta_dir.exists() { bail!("Docker context '{name}' already exists") }
NewCheckExists(p) ==
    /\ ctxPc[p] = "check"
    /\ IF MetaOf(p).exists
         THEN NewErr(p, "already exists")
         ELSE /\ ctxPc' = [ctxPc EXCEPT ![p] = "mkMeta"]
              /\ UNCHANGED ctxErr
    /\ UNCHANGED <<meta_dir, tls_dir, ctxName, keepalive_handle, dockerd_handle,
                   wrapResult, ctxLog>>

\* fs::create_dir_all(&meta_dir)?
NewCreateMetaDir(p) ==
    /\ ctxPc[p] = "mkMeta"
    /\ \/ /\ meta_dir' = [meta_dir EXCEPT ![sha256[ctxName[p]]] = create_dir_all(@, p)]
          /\ ctxPc' = [ctxPc EXCEPT ![p] = "mkTls"]
          /\ UNCHANGED ctxErr
       \/ /\ NewErr(p, "io")
          /\ UNCHANGED meta_dir
    /\ UNCHANGED <<tls_dir, ctxName, keepalive_handle, dockerd_handle, wrapResult, ctxLog>>

\* fs::create_dir_all(&tls_dir.join("docker"))?
NewCreateTlsDir(p) ==
    /\ ctxPc[p] = "mkTls"
    /\ \/ /\ tls_dir' = [tls_dir EXCEPT ![sha256[ctxName[p]]] = create_dir_all(@, p)]
          /\ ctxPc' = [ctxPc EXCEPT ![p] = "wMeta"]
          /\ UNCHANGED ctxErr
       \/ /\ NewErr(p, "io")
          /\ UNCHANGED tls_dir
    /\ UNCHANGED <<meta_dir, ctxName, keepalive_handle, dockerd_handle, wrapResult, ctxLog>>

\* fs::write(meta_dir.join("meta.json"), ...)?  It fails when the directory is gone.
NewWriteMetaJson(p) ==
    /\ ctxPc[p] = "wMeta"
    /\ \/ /\ MetaOf(p).exists
          /\ meta_dir' = [meta_dir EXCEPT ![sha256[ctxName[p]]] = write(@, "meta.json", p)]
          /\ ctxPc' = [ctxPc EXCEPT ![p] = "wCa"]
          /\ UNCHANGED ctxErr
       \/ /\ NewErr(p, "io")
          /\ UNCHANGED meta_dir
    /\ UNCHANGED <<tls_dir, ctxName, keepalive_handle, dockerd_handle, wrapResult, ctxLog>>

\* One fs::write into the tls directory, at position `at`, going on to `then`.
NewWriteTls(p, at, f, then) ==
    /\ ctxPc[p] = at
    /\ \/ /\ TlsOf(p).exists
          /\ tls_dir' = [tls_dir EXCEPT ![sha256[ctxName[p]]] = write(@, f, p)]
          /\ ctxPc' = [ctxPc EXCEPT ![p] = then]
          /\ UNCHANGED ctxErr
       \/ /\ NewErr(p, "io")
          /\ UNCHANGED tls_dir
    /\ UNCHANGED <<meta_dir, ctxName, keepalive_handle, dockerd_handle, wrapResult, ctxLog>>

\* fs::write(tls_dir.join("docker/ca.pem"), ...)?
NewWriteCa(p) == NewWriteTls(p, "wCa", "docker/ca.pem", "wCert")

\* fs::write(tls_dir.join("docker/cert.pem"), ...)?
NewWriteCert(p) == NewWriteTls(p, "wCert", "docker/cert.pem", "wKey")

\* fs::write(tls_dir.join("docker/key.pem"), ...)?  and Ok(Self { .. })
NewWriteKey(p) == NewWriteTls(p, "wKey", "docker/key.pem", "held")

\* The steps of DockerContext::new after the path computation.
NewStep(p) ==
    \/ NewCheckExists(p)
    \/ NewCreateMetaDir(p)
    \/ NewCreateTlsDir(p)
    \/ NewWriteMetaJson(p)
    \/ NewWriteCa(p)
    \/ NewWriteCert(p)
    \/ NewWriteKey(p)

\* A process holds a DockerContext value.
Holds(p) == ctxPc[p] \in {"held", "wrap"}

\* keepalive() as it would be if its loop could end.
KeepaliveResultsWithOk == {"Err(keepalive)", "Ok(())"}

\* What keepalive() can return: its loop has no break, so only the error of a
\* call that failed.
KeepaliveResults == {"Err(keepalive)"}

\* What dockerd() can return: the error of the call that failed; after the call
\* there is only unreachable!().
DockerdResults == {"Err(dockerd)"}

\* The keepalive task ends: its RemoteHandle resolves with the task's result.
KeepaliveResolves(p) ==
    /\ Holds(p)
    /\ keepalive_handle[p] = "pending"
    /\ \E r \in KeepaliveResults :
          keepalive_handle' = [keepalive_handle EXCEPT ![p] = r]
    /\ UNCHANGED <<meta_dir, tls_dir, ctxPc, ctxName, ctxErr, dockerd_handle,
                   wrapResult, ctxLog>>

\* The dockerd task ends: its RemoteHandle resolves with the task's result.
DockerdResolves(p) ==
    /\ Holds(p)
    /\ dockerd_handle[p] = "pending"
    /\ \E r \in DockerdResults :
          dockerd_handle' = [dockerd_handle EXCEPT ![p] = r]
    /\ UNCHANGED <<meta_dir, tls_dir, ctxPc, ctxName, ctxErr, keepalive_handle,
                   wrapResult, ctxLog>>

\* poll as it would be with the dockerd handle polled first.
PollDockerdFirst(k, d) ==
    IF d # "pending" THEN d
    ELSE IF k # "pending" THEN k
    ELSE "pending"

\* impl Future for DockerContext: poll.
Poll(k, d) ==
    IF k # "pending" THEN k
    ELSE IF d # "pending" THEN d
    ELSE "pending"

\* fs::remove_dir_all on one directory: Ok with the directory gone, or Err when
\* there is nothing to remove.
remove_dir_all(dir) ==
    IF dir.exists THEN [ok |-> TRUE, dir |-> NoDir] ELSE [ok |-> FALSE, dir |-> dir]

\* The lines Drop logs: one log::error! per failed removal.
DropLog(m, t) ==
    (IF m.ok THEN <<>> ELSE <<"deleting docker context meta dir">>)
    \o (IF t.ok THEN <<>> ELSE <<"deleting docker context tls dir">>)

\* Drop as it would be with the tls directory forgotten.
DropOnlyMeta(p) ==
    LET m == remove_dir_all(MetaOf(p))
    IN  /\ meta_dir' = [meta_dir EXCEPT ![sha256[ctxName[p]]] = m.dir]
        /\ tls_dir' = tls_dir
        /\ ctxLog' = [ctxLog EXCEPT ![p] = @ \o DropLog(m, [ok |-> TRUE])]

\* impl Drop for DockerContext: both directories are removed, errors are logged.
Drop(p) ==
    LET m == remove_dir_all(MetaOf(p))
        t == remove_dir_all(TlsOf(p))
    IN  /\ meta_dir' = [meta_dir EXCEPT ![sha256[ctxName[p]]] = m.dir]
        /\ tls_dir' = [tls_dir EXCEPT ![sha256[ctxName[p]]] = t.dir]
        /\ ctxLog' = [ctxLog EXCEPT ![p] = @ \o DropLog(m, t)]

\* The holder lets go of the DockerContext without wrap(): a return, an error
\* return, or a select! arm that cancels it.
ScopeExit(p) ==
    /\ ctxPc[p] = "held"
    /\ Drop(p)
    /\ ctxPc' = [ctxPc EXCEPT ![p] = "dropped"]
    /\ UNCHANGED <<ctxName, ctxErr, keepalive_handle, dockerd_handle, wrapResult>>

\* wrap(self, task) is called: the DockerContext moves into the select!.
WrapCall(p) ==
    /\ ctxPc[p] = "held"
    /\ ctxPc' = [ctxPc EXCEPT ![p] = "wrap"]
    /\ UNCHANGED <<meta_dir, tls_dir, ctxName, ctxErr, keepalive_handle, dockerd_handle,
                   wrapResult, ctxLog>>

\* wrap: the `self` arm of the select! fires; self is dropped as wrap returns,
\* or as the panic of unreachable!() unwinds.
WrapContextArm(p) ==
    /\ ctxPc[p] = "wrap"
    /\ Poll(keepalive_handle[p], dockerd_handle[p]) # "pending"
    /\ wrapResult' = [wrapResult EXCEPT ![p] =
            IF Poll(keepalive_handle[p], dockerd_handle[p]) = "Ok(())"
              THEN <<"panic", "should not complete cleanly", "Ok(())">>
              ELSE <<"Err", "docker context failed before task could be completed",
                     Poll(keepalive_handle[p], dockerd_handle[p])>>]
    /\ Drop(p)
    /\ ctxPc' = [ctxPc EXCEPT ![p] = "dropped"]
    /\ UNCHANGED <<ctxName, ctxErr, keepalive_handle, dockerd_handle>>

\* wrap as it would be if the task arm returned Ok whatever the task returned.
WrapTaskArmAlwaysOk(p, result) ==
    /\ ctxPc[p] = "wrap"
    /\ wrapResult' = [wrapResult EXCEPT ![p] = <<"Ok", "task", result>>]
    /\ Drop(p)
    /\ ctxPc' = [ctxPc EXCEPT ![p] = "dropped"]
    /\ UNCHANGED <<ctxName, ctxErr, keepalive_handle, dockerd_handle>>

\* wrap: the `task` arm of the select! fires with the task's result, which is
\* what wrap returns.
WrapTaskArm(p, result) ==
    /\ ctxPc[p] = "wrap"
    /\ wrapResult' = [wrapResult EXCEPT ![p] = <<result, "task", result>>]
    /\ Drop(p)
    /\ ctxPc' = [ctxPc EXCEPT ![p] = "dropped"]
    /\ UNCHANGED <<ctxName, ctxErr, keepalive_handle, dockerd_handle>>

TaskResults == {"Ok", "Err"}

(***************************************************************************)
(* Part 2: worker.rs, WorkerConfig::run_task                               *)
(***************************************************************************)

\* The process that runs run_task.
Owner == "p1"

\* The length of the one-time password (20 in the program).
OtpLen == 2

\* The characters of the one-time password (rand's Alphanumeric).
OtpChars == {"a", "b"}

\* The characters /fleeting/otp can hold: token characters and whitespace.
FileChars == OtpChars \cup {"\n"}

\* How long /fleeting/otp can be.
MaxFileLen == OtpLen + 1

\* Seconds: the deadline of each connect / auth loop, the timeout of one TCP
\* connect, the sleep between two attempts.
DeadlineSecs == 60
ConnectTimeoutSecs == 3
RetrySleepSecs == 1

\* The longest one authenticate_publickey call takes, in seconds (the call has
\* no timeout of its own).
MaxAuthSecs == 2

SeqsUpTo(S, n) == UNION {[1..k -> S] : k \in 0..n}

IsWhitespace(c) == c \in {"\n", " "}

RECURSIVE TrimStart(_)
TrimStart(s) ==
    IF s # <<>> /\ IsWhitespace(Head(s)) THEN TrimStart(Tail(s)) ELSE s

RECURSIVE TrimEnd(_)
TrimEnd(s) ==
    IF s # <<>> /\ IsWhitespace(s[Len(s)]) THEN TrimEnd(SubSeq(s, 1, Len(s) - 1)) ELSE s

\* str::trim
trim(s) == TrimEnd(TrimStart(s))

\* The comparison as it would be if only the lengths were compared.
OtpDiffersByLength(received, generated) == Len(received) # Len(generated)

\* received_otp != otp
OtpDiffers(received, generated) == received # generated

\* The phases of bring-up, in the order of run_task.
PhaseOrder == <<"launch", "tcp22", "ssh", "otp", "bg", "dockerPort", "publish">>

\* received_otp before /fleeting/otp has been read.
NotRead == <<"?">>

VARIABLES
    runPc,         \* where run_task is
    otp,           \* the generated one-time password
    received_otp,  \* the trimmed content of /fleeting/otp
    clock,         \* seconds since the current deadline was set
    bg_jobs,       \* the keepalive and dockerd futures of bg_jobs
    task,          \* the user task: unstarted, running, or done
    runResult,     \* what run_task returned
    trace          \* the phases begun, succeeded and failed, in order

runVars == <<runPc, otp, received_otp, clock, bg_jobs, task, runResult, trace>>

\* The state of the launcher and the worker of --while (Part 3).
VARIABLES
    launcherPc,       \* where the launcher is
    launcherExit,     \* the launcher's exit code, -1 while it has none
    launcherStdout,   \* the lines the launcher printed to its own stdout
    message,          \* the result of the launcher's `ready` future
    child_stdin,      \* the pipe to the worker's stdin: its data, whether closed
    child_stdout,     \* the lines in the pipe from the worker's stdout
    child_stderr,     \* the lines in the pipe from the worker's stderr
    workerFds,        \* the worker's open output descriptors
    written,          \* every line the worker wrote, by descriptor
    workerPc,         \* where the worker is
    workerResult,     \* what Cli::run returned in the worker
    workerExit,       \* the worker's exit code, -1 while it has none
    spawnPc,          \* where the worker's bring-up (WorkerConfig::spawn) is
    watchedAlive,     \* whether the process of --while PID is running
    launcher_exited,  \* the fused waitpid(launcher_pid) future
    watch_exited      \* the fused waitpid(watch_pid) future

cliVars ==
    <<launcherPc, launcherExit, launcherStdout, message, child_stdin, child_stdout,
      child_stderr, workerFds, written, workerPc, workerResult, workerExit, spawnPc,
      watchedAlive, launcher_exited, watch_exited>>

launcherVars == <<launcherPc, launcherExit, launcherStdout, message>>
pipeVars == <<child_stdin, child_stdout, child_stderr>>
workerVars ==
    <<workerFds, written, workerPc, workerResult, workerExit, spawnPc, launcher_exited,
      watch_exited>>

\* The state of a foreground run (Part 4).
VARIABLES
    what_to_run,          \* which of COMMAND, --while and --worker were given
    custom_context_name,  \* --context-name, or NoName
    mode,                 \* the arm of the match in Cli::run that was taken
    fgPc,                 \* where the foreground run is
    child,                \* the user command's process
    fgResult,             \* what the foreground run ended with
    fgExit                \* the exit code of the process, -1 while it has none

fgVars == <<what_to_run, custom_context_name, mode, fgPc, child, fgResult, fgExit>>

\* The state of the VM's watchdog and of the keepalive loop (Part 5).
VARIABLES
    vm,              \* the VM: none, armed (up, its watchdog running), terminated
    keepalive_timeout, \* the {{keepalive_timeout}} of the bootstrap script, 0 before
    sinceRefresh,    \* seconds since the keepalive of the VM was last refreshed
    kaPc,            \* where keepalive() is: unstarted, calling, sleeping, stopped
    kaClock,         \* seconds since the call or the sleep of keepalive() began
    roundRefreshed,  \* whether the call in progress has refreshed the keepalive
    maxRound,        \* the longest a call of keepalive() has taken so far
    kaRefreshed      \* whether the last refresh was made by keepalive()

vmVars ==
    <<vm, keepalive_timeout, sinceRefresh, kaPc, kaClock, roundRefreshed, maxRound,
      kaRefreshed>>

\* The state of one call of eventually() (Part 6), times in seconds.
VARIABLES
    sleep_between,  \* the delay between attempts
    total_timeout,  \* the time allowed from the start
    evPc,           \* where eventually() is: start, attempting, sleeping, done
    now,            \* SystemTime::now()
    deadline,       \* now + total_timeout at the start, -1 before
    attempt_no,     \* the number of the attempt made last
    evClock,        \* how long the attempt or the sleep in progress has lasted
    evResult,       \* what eventually() returned, <<"none">> before
    attempts        \* the attempts made: number, start, end, outcome, slept after

evVars ==
    <<sleep_between, total_timeout, evPc, now, deadline, attempt_no, evClock, evResult,
      attempts>>

\* The state of steps.rs (Part 7).
VARIABLES
    CURRENT_STEP,  \* the process-global current step: a step, or None
    arena,         \* the Steps allocated so far: parent, number, total
    handles,       \* the StepHandles alive, in the order they were made
    stepPanic      \* whether a Drop has panicked

stepVars == <<CURRENT_STEP, arena, handles, stepPanic>>

\* The state of VmProvider::spawn (Part 8).
VARIABLES
    provider,             \* "ec2" or "gce"
    provPc,               \* where spawn is
    instance_type_archs,  \* supported_architectures of the EC2 instance type
    image_id,             \* the image chosen, "none" before
    security_group,       \* none, existed (found), or created
    instance,             \* the state of the instance as the cloud reports it
    provResult            \* what spawn returned

provVars ==
    <<provider, provPc, instance_type_archs, image_id, security_group, instance, provResult>>

\* The state of one channel in ssh.rs (Part 9).
VARIABLES
    chPc,            \* idle, waiting (in the loop of line 67), or done
    caller,          \* which operation of ChannelExt was called
    err_on_nonzero,  \* the parameter of exec_to_completion
    stdout_mode,     \* Capture or Log
    stderr_mode,     \* Capture or Log
    stdout_buf,      \* the bytes of stdout kept so far
    stderr_buf,      \* the bytes of stderr kept so far
    chCode,          \* `code`: the exit status received, or NoCode
    received,        \* all bytes received so far, by stream
    chunks,          \* how many data messages were received, by stream
    lateData,        \* whether a data message arrived after the exit status
    ignoredMsg,      \* whether a message of another kind was received
    logged,          \* the lines given to log::log!, with their stream
    execOutcome,     \* what exec_to_completion returned
    chResult         \* what the operation that was called returned

chVars ==
    <<chPc, caller, err_on_nonzero, stdout_mode, stderr_mode, stdout_buf, stderr_buf,
      chCode, received, chunks, lateData, ignoredMsg, logged, execOutcome, chResult>>

\* The state of the garbage collection at the start of spawn (Part 10).
VARIABLES
    gcProvider,    \* the provider both invocations use: gce or multipass
    instances,     \* the VMs of the project / of the host, by name
    gcPc,          \* where each invocation is in spawn
    orphan_names,  \* the names each invocation listed and has not deleted yet
    deletions      \* what was deleted: by whom, and what it was at that moment

gcVars == <<gcProvider, instances, gcPc, orphan_names, deletions>>

\* The state of one call of spawn as far as its steps go (Part 11).
VARIABLES
    stepsPc,        \* where spawn is: idle, running, returned, or panicked
    spawnProvider,  \* whose spawn is called
    spawnBefore,    \* the step that was current when spawn was called
    spawnResult     \* Ok or Err, once spawn has returned

spawnVars == <<stepsPc, spawnProvider, spawnBefore, spawnResult>>

\* The parts added after the first five.
moreVars == <<evVars, stepVars, provVars, chVars, gcVars, spawnVars>>

\* What each part leaves alone.
outsideCtx == <<runVars, cliVars, fgVars, vmVars, moreVars>>
outsideRun == <<cliVars, fgVars, vmVars, moreVars>>
outsideCli == <<runVars, fgVars, vmVars, moreVars>>
outsideFg == <<runVars, cliVars, vmVars, moreVars>>
outsideVm == <<ctxVars, runVars, cliVars, fgVars, moreVars>>
outsideEv == <<ctxVars, runVars, cliVars, fgVars, vmVars, stepVars, provVars, chVars, gcVars, spawnVars>>
outsideStep == <<ctxVars, runVars, cliVars, fgVars, vmVars, evVars, provVars, chVars, gcVars, spawnVars>>
outsideProv == <<ctxVars, runVars, cliVars, fgVars, vmVars, evVars, stepVars, chVars, gcVars, spawnVars>>
outsideCh == <<ctxVars, runVars, cliVars, fgVars, vmVars, evVars, stepVars, provVars, gcVars, spawnVars>>
outsideGc == <<ctxVars, runVars, cliVars, fgVars, vmVars, evVars, stepVars, provVars, chVars, spawnVars>>
\* spawn changes the steps as well.
outsideSpawn == <<ctxVars, runVars, cliVars, fgVars, vmVars, evVars, provVars, chVars, gcVars>>

RunInit(on) ==
    /\ runPc = IF on THEN "start" ELSE "off"
    /\ otp = <<>>
    /\ received_otp = NotRead
    /\ clock = 0
    /\ bg_jobs = [keepalive |-> "unstarted", dockerd |-> "unstarted"]
    /\ task = "unstarted"
    /\ runResult = <<"none", "">>
    /\ trace = <<>>

\* run_task as it would be if a failure were recorded and the phase tried again.
RunFailsAndGoesOn(ph, kind, msg) ==
    /\ runPc' = runPc
    /\ runResult' = <<kind, msg>>
    /\ trace' = Append(trace, <<"fail", ph>>)

\* run_task returns Err(msg) (kind "Err") or unwinds from a panic (kind "panic")
\* while phase `ph` is in progress.
RunFails(ph, kind, msg) ==
    /\ runPc' = "done"
    /\ runResult' = <<kind, msg>>
    /\ trace' = Append(trace, <<"fail", ph>>)

\* Phase `ph` succeeds and phase `nxt` begins.
Advance(ph, nxt) == trace' = trace \o <<<<"ok", ph>>, <<"begin", nxt>>>>

\* Lines 56-73: the context name, the key pair, the one-time password and the
\* user data; vm_provider.spawn is called.
GenerateSecrets ==
    /\ runPc = "start"
    /\ \E t \in [1..OtpLen -> OtpChars] : otp' = t
    /\ runPc' = "launching"
    /\ trace' = Append(trace, <<"begin", "launch">>)
    /\ UNCHANGED <<received_otp, clock, bg_jobs, task, runResult, ctxVars, outsideRun>>

\* Line 74: let ip = self.vm_provider.spawn(&user_data).await?; line 78 sets the
\* tcp deadline.
VmSpawned ==
    /\ runPc = "launching"
    /\ \/ /\ runPc' = "tcp"
          /\ clock' = 0
          /\ Advance("launch", "tcp22")
          /\ UNCHANGED runResult
       \/ /\ RunFails("launch", "Err", "vm provider")
          /\ UNCHANGED clock
    /\ UNCHANGED <<otp, received_otp, bg_jobs, task, ctxVars, outsideRun>>

\* Line 79 as it would be with the per-attempt timeout as the deadline.
TcpDeadlinePassedEarly == clock > ConnectTimeoutSecs

\* Line 79: SystemTime::now() > tcp_deadline
TcpDeadlinePassed == clock > DeadlineSecs

\* Lines 79-95: one round of the loop that connects to port 22.
TcpAttempt ==
    /\ runPc = "tcp"
    /\ IF TcpDeadlinePassed
         THEN /\ RunFails("tcp22", "Err", "Could not open tcp stream in the deadline")
              /\ UNCHANGED clock
         ELSE \/  \* Ok(Ok(stream)) => break stream
                    /\ clock' = 0
                    /\ runPc' = "handshake"
                    /\ Advance("tcp22", "ssh")
                    /\ UNCHANGED runResult
              \/ \E d \in 0..(ConnectTimeoutSecs - 1) :
                    \* Ok(Err(e)) => sleep
                    /\ clock' = clock + d + RetrySleepSecs
                    /\ UNCHANGED <<runPc, runResult, trace>>
              \/    \* Err(_): the connect timed out => sleep
                    /\ clock' = clock + ConnectTimeoutSecs + RetrySleepSecs
                    /\ UNCHANGED <<runPc, runResult, trace>>
    /\ UNCHANGED <<otp, received_otp, bg_jobs, task, ctxVars, outsideRun>>

\* Line 103: russh::client::connect_stream(..).await?; line 107 sets the auth
\* deadline.
SshHandshake ==
    /\ runPc = "handshake"
    /\ \/ /\ runPc' = "auth"
          /\ clock' = 0
          /\ UNCHANGED <<runResult, trace>>
       \/ /\ RunFails("ssh", "Err", "ssh handshake")
          /\ UNCHANGED clock
    /\ UNCHANGED <<otp, received_otp, bg_jobs, task, ctxVars, outsideRun>>

\* Line 109 as it would be with the sleep as the deadline.
AuthDeadlinePassedEarly == clock > RetrySleepSecs

\* Line 109: SystemTime::now() > auth_deadline
AuthDeadlinePassed == clock > DeadlineSecs

\* Lines 108-120: one round of the loop that authenticates as root.
AuthAttempt ==
    /\ runPc = "auth"
    /\ IF AuthDeadlinePassed
         THEN /\ RunFails("ssh", "Err", "Could not auth via SSH in XYZ seconds")
              /\ UNCHANGED clock
         ELSE \E d \in 0..MaxAuthSecs :
                \/  \* Ok(true) => break
                    /\ clock' = 0
                    /\ runPc' = "otp"
                    /\ Advance("ssh", "otp")
                    /\ UNCHANGED runResult
                \/  \* Ok(false) => sleep
                    /\ clock' = clock + d + RetrySleepSecs
                    /\ UNCHANGED <<runPc, runResult, trace>>
                \/  \* Err(e) => bail
                    /\ RunFails("ssh", "Err", "failure while attempting auth")
                    /\ clock' = clock + d
    /\ UNCHANGED <<otp, received_otp, bg_jobs, task, ctxVars, outsideRun>>

\* Lines 124-129: cat /fleeting/otp, trim, compare.
ValidateOtp ==
    /\ runPc = "otp"
    /\ \/ \E content \in SeqsUpTo(FileChars, MaxFileLen) :
            /\ received_otp' = trim(content)
            /\ IF OtpDiffers(trim(content), otp)
                 THEN RunFails("otp", "Err", "invalid otp")
                 ELSE /\ runPc' = "bg"
                      /\ Advance("otp", "bg")
                      /\ UNCHANGED runResult
       \/   \* the channel cannot be opened, or the content is not UTF-8
          /\ RunFails("otp", "Err", "reading otp")
          /\ UNCHANGED received_otp
       \/   \* cat exits non-zero or without an exit status: assert_eq!, expect
          /\ RunFails("otp", "panic", "program did not exit cleanly")
          /\ UNCHANGED received_otp
    /\ UNCHANGED <<otp, clock, bg_jobs, task, ctxVars, outsideRun>>

\* Lines 132-163: the futures of keepalive and dockerd are built, and the first
\* poll of the select! starts them together with the first connect to the
\* Docker port; line 142 sets the docker deadline.
StartBgJobs ==
    /\ runPc = "bg"
    /\ bg_jobs' = [keepalive |-> "running", dockerd |-> "running"]
    /\ clock' = 0
    /\ runPc' = "dockerWait"
    /\ Advance("bg", "dockerPort")
    /\ UNCHANGED <<otp, received_otp, task, runResult, ctxVars, outsideRun>>

\* Lines 143-159 and 168-171: one round of the loop that connects to the Docker
\* port, ending the select! when the port is open or the deadline has passed.
DockerAttempt ==
    /\ runPc = "dockerWait"
    /\ IF clock > DeadlineSecs
         THEN /\ RunFails("dockerPort", "Err", "Could not connect to docker in the deadline")
              /\ UNCHANGED clock
         ELSE \/  \* Ok(Ok(stream)) => break
                    /\ clock' = 0
                    /\ runPc' = "publish"
                    /\ Advance("dockerPort", "publish")
                    /\ UNCHANGED runResult
              \/ \E d \in 0..(ConnectTimeoutSecs - 1) :
                    /\ clock' = clock + d + RetrySleepSecs
                    /\ UNCHANGED <<runPc, runResult, trace>>
              \/    /\ clock' = clock + ConnectTimeoutSecs + RetrySleepSecs
                    /\ UNCHANGED <<runPc, runResult, trace>>
    /\ UNCHANGED <<otp, received_otp, bg_jobs, task, ctxVars, outsideRun>>

\* How a background job can end: keepalive by the error of its call or by its
\* assert_eq!; dockerd by the error of its call or, when the remote script
\* exits, by its unreachable!().
JobEnds == {"Err", "panic"}

\* The select! of lines 163-172 as it would be without its bg_jobs arm: the
\* job ends and the wait for the port goes on.
BgJobEndsInWaitUnnoticed(j, how) ==
    /\ runPc = "dockerWait"
    /\ bg_jobs[j] = "running"
    /\ bg_jobs' = [bg_jobs EXCEPT ![j] = how]
    /\ UNCHANGED <<runPc, runResult, trace, otp, received_otp, clock, task, ctxVars,
                   outsideRun>>

\* Lines 164-167: while the Docker port is awaited a background job ends and
\* bg_jobs.next() wins the select!.
BgJobEndsInWait(j, how) ==
    /\ runPc = "dockerWait"
    /\ bg_jobs[j] = "running"
    /\ bg_jobs' = [bg_jobs EXCEPT ![j] = how]
    /\ RunFails("dockerPort", how, j)
    /\ UNCHANGED <<otp, received_otp, clock, task, ctxVars, outsideRun>>

\* Line 174: DockerContext::new is called.
PublishBegin ==
    /\ runPc = "publish"
    /\ \E custom \in CustomNames \cup {NoName} : NewBegin(Owner, custom)
    /\ IF ctxPc'[Owner] = "newErr"
         THEN RunFails("publish", "Err", ctxErr'[Owner])
         ELSE /\ runPc' = "publishing"
              /\ UNCHANGED <<runResult, trace>>
    /\ UNCHANGED <<otp, received_otp, clock, bg_jobs, task, outsideRun>>

\* Lines 174-177: DockerContext::new goes on; when it returns Ok the user task
\* is started, when it returns Err run_task returns that error.
PublishStep ==
    /\ runPc = "publishing"
    /\ NewStep(Owner)
    /\ CASE ctxPc'[Owner] = "held" ->
              /\ runPc' = "task"
              /\ task' = "running"
              /\ trace' = Append(trace, <<"ok", "publish">>)
              /\ UNCHANGED runResult
         [] ctxPc'[Owner] = "newErr" ->
              /\ RunFails("publish", "Err", ctxErr'[Owner])
              /\ UNCHANGED task
         [] OTHER -> UNCHANGED <<runPc, task, runResult, trace>>
    /\ UNCHANGED <<otp, received_otp, clock, bg_jobs, outsideRun>>

\* run_task ends while _docker_context is alive: the value is dropped.
ReturnDropping(kind, msg) ==
    /\ runPc' = "done"
    /\ runResult' = <<kind, msg>>
    /\ Drop(Owner)
    /\ ctxPc' = [ctxPc EXCEPT ![Owner] = "dropped"]
    /\ UNCHANGED <<ctxName, ctxErr, keepalive_handle, dockerd_handle, wrapResult>>

\* Lines 184-186: the user task completes first and its value is returned.
TaskCompletes(r) ==
    /\ runPc = "task"
    /\ task' = "done"
    /\ ReturnDropping(r, "task")
    /\ UNCHANGED <<otp, received_otp, clock, bg_jobs, trace, outsideRun>>

\* Lines 180-183: a background job ends while the user task runs.
BgJobEndsInTask(j, how) ==
    /\ runPc = "task"
    /\ bg_jobs[j] = "running"
    /\ bg_jobs' = [bg_jobs EXCEPT ![j] = how]
    /\ ReturnDropping(how, j)
    /\ UNCHANGED <<otp, received_otp, clock, task, trace, outsideRun>>

RunNext ==
    \/ GenerateSecrets
    \/ VmSpawned
    \/ TcpAttempt
    \/ SshHandshake
    \/ AuthAttempt
    \/ ValidateOtp
    \/ StartBgJobs
    \/ DockerAttempt
    \/ \E j \in {"keepalive", "dockerd"}, how \in JobEnds : BgJobEndsInWait(j, how)
    \/ PublishBegin
    \/ PublishStep
    \/ \E r \in TaskResults : TaskCompletes(r)
    \/ \E j \in {"keepalive", "dockerd"}, how \in JobEnds : BgJobEndsInTask(j, how)

(***************************************************************************)
(* Part 3: cli.rs, the launcher and the worker of --while                  *)
(***************************************************************************)

\* println!("{child_pid}")
PidLine == "pid"

\* serde_json::to_string(&ChildLaunchArgs { launcher_pid })
LaunchArgs == "{launcher_pid}"

\* serde_json::to_string(&ChildContextReady {})
ReadyLine == "{}"

\* Log lines of the worker at the default level.
WarnLauncher == "warning: Launcher exited (killed?) before docker context was ready, aborting."
WarnWatched == "warning: Watched process exited before docker context was ready, aborting."
InfoWatched == "Watched processes exited, exiting."
InfoBringUp == "bring-up"
ErrorLine == "error"

CliInit(on) ==
    /\ launcherPc = IF on THEN "start" ELSE "off"
    /\ launcherExit = -1
    /\ launcherStdout = <<>>
    /\ message = "none"
    /\ child_stdin = [data |-> <<>>, closed |-> FALSE]
    /\ child_stdout = <<>>
    /\ child_stderr = <<>>
    /\ workerFds = {}
    /\ written = [stdout |-> <<>>, stderr |-> <<>>]
    /\ workerPc = "notSpawned"
    /\ workerResult = <<"none", "">>
    /\ workerExit = -1
    /\ spawnPc = "none"
    /\ watchedAlive \in IF on THEN BOOLEAN ELSE {TRUE}
    /\ launcher_exited = "pending"
    /\ watch_exited = "pending"

\* The launcher process is gone: its PID is no longer in the process table and
\* its ends of the pipes are closed.
LauncherGone == launcherPc \in {"exited", "killed"}

\* The launcher returns from Cli::run with `code`.
LauncherReturns(code) ==
    /\ launcherPc' = "exited"
    /\ launcherExit' = code

\* Lines 100-112: the worker is spawned detached with three pipes.
LauncherSpawnWorker ==
    /\ launcherPc = "start"
    /\ launcherPc' = "spawned"
    /\ workerPc' = "readArgs"
    /\ workerFds' = {"stdout", "stderr"}
    /\ UNCHANGED <<launcherExit, launcherStdout, message, pipeVars, written, workerResult,
                   workerExit, spawnPc, watchedAlive, launcher_exited, watch_exited,
                   ctxVars, outsideCli>>

\* Line 113: println!("{child_pid}").
LauncherPrintPid ==
    /\ launcherPc = "spawned"
    /\ launcherStdout' = Append(launcherStdout, PidLine)
    /\ launcherPc' = "printed"
    /\ UNCHANGED <<launcherExit, message, pipeVars, workerVars, watchedAlive, ctxVars,
                   outsideCli>>

\* Lines 116-123: child_stdin.write_all(launch_args).
LauncherSendArgs ==
    /\ launcherPc = "printed"
    /\ child_stdin' = [child_stdin EXCEPT !.data = Append(@, LaunchArgs)]
    /\ launcherPc' = "sent"
    /\ UNCHANGED <<launcherExit, launcherStdout, message, child_stdout, child_stderr,
                   workerVars, watchedAlive, ctxVars, outsideCli>>

\* The launcher as it would be if it kept child_stdin open.
LauncherKeepStdin ==
    /\ launcherPc = "sent"
    /\ launcherPc' = "waiting"
    /\ UNCHANGED <<child_stdin, launcherExit, launcherStdout, message, child_stdout,
                   child_stderr, workerVars, watchedAlive, ctxVars, outsideCli>>

\* Line 124: drop(child_stdin).
LauncherCloseStdin ==
    /\ launcherPc = "sent"
    /\ child_stdin' = [child_stdin EXCEPT !.closed = TRUE]
    /\ launcherPc' = "waiting"
    /\ UNCHANGED <<launcherExit, launcherStdout, message, child_stdout, child_stderr,
                   workerVars, watchedAlive, ctxVars, outsideCli>>

\* serde_json::from_str::<ChildContextReady>(&line)
Decode(line) == IF line = ReadyLine THEN "Some(ready)" ELSE "Err(decoding worker message)"

\* Lines 127-156: one poll of the biased select!.  logs_finished is polled
\* first: it proxies the lines that are there and is ready at EOF of the
\* worker's stderr.  Then `ready` is polled: it is ready with the first line of
\* the worker's stdout, or with None at EOF.
LauncherPoll ==
    /\ launcherPc = "waiting"
    /\ child_stderr' = <<>>
    /\ IF "stderr" \notin workerFds
         THEN \* "Worker failed to establish a Docker context."
              /\ LauncherReturns(1)
              /\ UNCHANGED <<message, child_stdout>>
         ELSE IF child_stdout # <<>>
           THEN /\ message' = Decode(Head(child_stdout))
                /\ child_stdout' = Tail(child_stdout)
                /\ LauncherReturns(IF Decode(Head(child_stdout)) = "Some(ready)" THEN 0 ELSE 1)
           ELSE IF "stdout" \notin workerFds
             THEN /\ message' = "None"
                  /\ LauncherReturns(0)
                  /\ UNCHANGED child_stdout
             ELSE UNCHANGED <<launcherPc, launcherExit, message, child_stdout>>
    /\ UNCHANGED <<launcherStdout, child_stdin, workerVars, watchedAlive, ctxVars, outsideCli>>

\* The launcher is killed by a signal: its ends of the pipes close.
LauncherKilled ==
    /\ launcherPc \in {"spawned", "printed", "sent", "waiting"}
    /\ launcherPc' = "killed"
    /\ child_stdin' = [child_stdin EXCEPT !.closed = TRUE]
    /\ UNCHANGED <<launcherExit, launcherStdout, message, child_stdout, child_stderr,
                   workerVars, watchedAlive, ctxVars, outsideCli>>

\* The process of --while PID exits.
WatchedExits ==
    /\ launcherPc # "off"
    /\ watchedAlive
    /\ watchedAlive' = FALSE
    /\ UNCHANGED <<launcherVars, pipeVars, workerVars, ctxVars, outsideCli>>

\* The logger as it would be if it wrote to stdout.
LogToStdout(lines) ==
    /\ written' = [written EXCEPT !.stdout = @ \o lines]
    /\ child_stdout' = IF LauncherGone THEN child_stdout ELSE child_stdout \o lines
    /\ UNCHANGED child_stderr

\* logging.rs, Logger::log, lines 117-118: each line goes to stderr in one write
\* and a failed write is ignored.
Log(lines) ==
    /\ written' = [written EXCEPT !.stderr = @ \o lines]
    /\ child_stderr' = IF LauncherGone THEN child_stderr ELSE child_stderr \o lines
    /\ UNCHANGED child_stdout

\* Cli::run returns in the worker: an Err is logged, a DockerContext that is
\* alive is dropped, and the process starts to exit with `code`.
WorkerReturns(kind, msg, code, lines) ==
    /\ workerPc' = "exiting"
    /\ workerResult' = <<kind, msg>>
    /\ workerExit' = code
    /\ Log(lines \o (IF kind = "Err" THEN <<ErrorLine>> ELSE <<>>))
    /\ IF ctxPc[Owner] = "held"
         THEN /\ Drop(Owner)
              /\ ctxPc' = [ctxPc EXCEPT ![Owner] = "dropped"]
              /\ UNCHANGED <<ctxName, ctxErr, keepalive_handle, dockerd_handle, wrapResult>>
         ELSE UNCHANGED ctxVars

\* Lines 168-177: the launch args are read to EOF and decoded; the futures of
\* the select! are built.
WorkerReadArgs ==
    /\ workerPc = "readArgs"
    /\ child_stdin.closed
    /\ IF child_stdin.data = <<LaunchArgs>>
         THEN /\ workerPc' = "waitingCtx"
              /\ spawnPc' = "bringup"
              /\ UNCHANGED <<workerResult, workerExit, written, child_stdout, child_stderr,
                             ctxVars>>
         ELSE /\ WorkerReturns("Err", "decoding launch args", 1, <<>>)
              /\ UNCHANGED spawnPc
    /\ UNCHANGED <<launcherVars, child_stdin, workerFds, watchedAlive, launcher_exited,
                   watch_exited, outsideCli>>

\* WorkerConfig::spawn before it publishes the context: the bring-up goes
\* through its phases and is ready to publish, or fails.
SpawnBringUp ==
    /\ workerPc = "waitingCtx"
    /\ spawnPc = "bringup"
    /\ \/ /\ spawnPc' = "publish"
          /\ Log(<<InfoBringUp>>)
          /\ UNCHANGED <<workerPc, workerResult, workerExit, ctxVars>>
       \/ /\ spawnPc' = "failed"
          /\ WorkerReturns("Err", "bring-up", 1, <<>>)
    /\ UNCHANGED <<launcherVars, child_stdin, workerFds, watchedAlive, launcher_exited,
                   watch_exited, outsideCli>>

\* WorkerConfig::spawn publishes: DockerContext::new is called.
SpawnPublishBegin ==
    /\ workerPc = "waitingCtx"
    /\ spawnPc = "publish"
    /\ \E custom \in CustomNames \cup {NoName} : NewBegin(Owner, custom)
    /\ IF ctxPc'[Owner] = "newErr"
         THEN /\ spawnPc' = "failed"
              /\ workerPc' = "exiting"
              /\ workerResult' = <<"Err", ctxErr'[Owner]>>
              /\ workerExit' = 1
              /\ Log(<<ErrorLine>>)
         ELSE /\ spawnPc' = "publishing"
              /\ UNCHANGED <<workerPc, workerResult, workerExit, written, child_stdout,
                             child_stderr>>
    /\ UNCHANGED <<launcherVars, child_stdin, workerFds, watchedAlive, launcher_exited,
                   watch_exited, outsideCli>>

\* WorkerConfig::spawn publishes: DockerContext::new goes on, and spawn returns
\* its DockerContext or its error.
SpawnPublishStep ==
    /\ workerPc = "waitingCtx"
    /\ spawnPc = "publishing"
    /\ NewStep(Owner)
    /\ CASE ctxPc'[Owner] = "held" ->
              /\ spawnPc' = "ready"
              /\ UNCHANGED <<workerPc, workerResult, workerExit, written, child_stdout,
                             child_stderr>>
         [] ctxPc'[Owner] = "newErr" ->
              /\ spawnPc' = "failed"
              /\ workerPc' = "exiting"
              /\ workerResult' = <<"Err", ctxErr'[Owner]>>
              /\ workerExit' = 1
              /\ Log(<<ErrorLine>>)
         [] OTHER ->
              UNCHANGED <<spawnPc, workerPc, workerResult, workerExit, written,
                          child_stdout, child_stderr>>
    /\ UNCHANGED <<launcherVars, child_stdin, workerFds, watchedAlive, launcher_exited,
                   watch_exited, outsideCli>>

\* The worker as it would be if it sent the ready line before the context is
\* published.
WorkerSendReadyEarly ==
    /\ workerPc = "waitingCtx"
    /\ spawnPc \in {"publish", "ready"}
    /\ ~LauncherGone
    /\ written' = [written EXCEPT !.stdout = Append(@, ReadyLine)]
    /\ child_stdout' = Append(child_stdout, ReadyLine)
    /\ workerPc' = IF spawnPc = "ready" THEN "monitor" ELSE workerPc
    /\ spawnPc' = IF spawnPc = "ready" THEN "done" ELSE spawnPc
    /\ UNCHANGED <<workerResult, workerExit, child_stderr, ctxVars>>
    /\ UNCHANGED <<launcherVars, child_stdin, workerFds, watchedAlive, launcher_exited,
                   watch_exited, outsideCli>>

\* Lines 181-188: the docker_context_ready arm with Ok: println!("{ready}").
\* println! panics when the launcher's end of the pipe is closed; the
\* DockerContext is dropped as the panic unwinds.
WorkerSendReady ==
    /\ workerPc = "waitingCtx"
    /\ spawnPc = "ready"
    /\ spawnPc' = "done"
    /\ IF LauncherGone
         THEN /\ workerPc' = "exiting"
              /\ workerResult' = <<"panic", "failed printing to stdout">>
              /\ workerExit' = 101
              /\ written' = [written EXCEPT !.stderr = Append(@, ErrorLine)]
              /\ Drop(Owner)
              /\ ctxPc' = [ctxPc EXCEPT ![Owner] = "dropped"]
              /\ UNCHANGED <<ctxName, ctxErr, keepalive_handle, dockerd_handle, wrapResult,
                             child_stdout, child_stderr>>
         ELSE /\ written' = [written EXCEPT !.stdout = Append(@, ReadyLine)]
              /\ child_stdout' = Append(child_stdout, ReadyLine)
              /\ workerPc' = "monitor"
              /\ UNCHANGED <<workerResult, workerExit, child_stderr, ctxVars>>
    /\ UNCHANGED <<launcherVars, child_stdin, workerFds, watchedAlive, launcher_exited,
                   watch_exited, outsideCli>>

\* The launcher_exited arm as it would be without its return.
WorkerLauncherExitedEarlyNoReturn ==
    /\ workerPc = "waitingCtx"
    /\ spawnPc = "bringup"
    /\ launcher_exited = "pending"
    /\ LauncherGone
    /\ launcher_exited' = "terminated"
    /\ Log(<<WarnLauncher>>)
    /\ UNCHANGED <<workerPc, workerResult, workerExit, ctxVars>>
    /\ UNCHANGED <<launcherVars, child_stdin, workerFds, spawnPc, watchedAlive, watch_exited,
                   outsideCli>>

\* Lines 189-193: waitpid finds the launcher gone while the bring-up is pending.
WorkerLauncherExitedEarly ==
    /\ workerPc = "waitingCtx"
    /\ spawnPc = "bringup"
    /\ launcher_exited = "pending"
    /\ LauncherGone
    /\ launcher_exited' = "terminated"
    /\ WorkerReturns("Ok", "launcher exited", 0, <<WarnLauncher>>)
    /\ UNCHANGED <<launcherVars, child_stdin, workerFds, spawnPc, watchedAlive, watch_exited,
                   outsideCli>>

\* Lines 194-198: waitpid finds the watched process gone while the bring-up is
\* pending.
WorkerWatchExitedEarly ==
    /\ workerPc = "waitingCtx"
    /\ spawnPc = "bringup"
    /\ watch_exited = "pending"
    /\ ~watchedAlive
    /\ watch_exited' = "terminated"
    /\ WorkerReturns("Ok", "watched exited early", 0, <<WarnWatched>>)
    /\ UNCHANGED <<launcherVars, child_stdin, workerFds, spawnPc, watchedAlive,
                   launcher_exited, outsideCli>>

\* Lines 204-208: the DockerContext resolves and the loop breaks with its error.
MonitorContextArm ==
    /\ workerPc = "monitor"
    /\ Poll(keepalive_handle[Owner], dockerd_handle[Owner]) # "pending"
    /\ IF Poll(keepalive_handle[Owner], dockerd_handle[Owner]) = "Ok(())"
         THEN \* result.expect_err("should not complete cleanly") panics
              WorkerReturns("panic", "should not complete cleanly", 101, <<>>)
         ELSE WorkerReturns("Err", Poll(keepalive_handle[Owner], dockerd_handle[Owner]),
                            1, <<>>)
    /\ UNCHANGED <<launcherVars, child_stdin, workerFds, spawnPc, watchedAlive,
                   launcher_exited, watch_exited, outsideCli>>

\* The launcher_exited arm of the loop as it would be if it ended the loop.
MonitorLauncherExitedBreaks ==
    /\ workerPc = "monitor"
    /\ launcher_exited = "pending"
    /\ LauncherGone
    /\ launcher_exited' = "terminated"
    /\ WorkerReturns("Ok", "launcher exited", 0, <<>>)
    /\ UNCHANGED <<launcherVars, child_stdin, workerFds, spawnPc, watchedAlive, watch_exited,
                   outsideCli>>

\* Lines 209-212: waitpid finds the launcher gone after the ready line; the
\* loop goes on.
MonitorLauncherExited ==
    /\ workerPc = "monitor"
    /\ launcher_exited = "pending"
    /\ LauncherGone
    /\ launcher_exited' = "terminated"
    /\ UNCHANGED <<launcherVars, pipeVars, workerFds, written, workerPc, workerResult,
                   workerExit, spawnPc, watchedAlive, watch_exited, ctxVars, outsideCli>>

\* Lines 213-217: waitpid finds the watched process gone; the loop breaks.
MonitorWatchExited ==
    /\ workerPc = "monitor"
    /\ watch_exited = "pending"
    /\ ~watchedAlive
    /\ watch_exited' = "terminated"
    /\ WorkerReturns("Ok", "watched exited", 0, <<InfoWatched>>)
    /\ UNCHANGED <<launcherVars, child_stdin, workerFds, spawnPc, watchedAlive,
                   launcher_exited, outsideCli>>

\* The worker process exits: the kernel closes one of its descriptors.
WorkerCloseFd(fd) ==
    /\ workerPc = "exiting"
    /\ fd \in workerFds
    /\ workerFds' = workerFds \ {fd}
    /\ workerPc' = IF workerFds = {fd} THEN "exited" ELSE workerPc
    /\ UNCHANGED <<launcherVars, pipeVars, written, workerResult, workerExit, spawnPc,
                   watchedAlive, launcher_exited, watch_exited, ctxVars, outsideCli>>

\* The keepalive or the dockerd task of the worker's context ends.
WorkerHandleResolves ==
    /\ launcherPc # "off"
    /\ \/ KeepaliveResolves(Owner)
       \/ DockerdResolves(Owner)
    /\ UNCHANGED <<cliVars, outsideCli>>

LauncherNext ==
    \/ LauncherSpawnWorker
    \/ LauncherPrintPid
    \/ LauncherSendArgs
    \/ LauncherCloseStdin
    \/ LauncherPoll

WorkerNext ==
    \/ WorkerReadArgs
    \/ SpawnBringUp
    \/ SpawnPublishBegin
    \/ SpawnPublishStep
    \/ WorkerSendReady
    \/ WorkerLauncherExitedEarly
    \/ WorkerWatchExitedEarly
    \/ MonitorContextArm
    \/ MonitorLauncherExited
    \/ MonitorWatchExited
    \/ \E fd \in {"stdout", "stderr"} : WorkerCloseFd(fd)

EnvNext ==
    \/ LauncherKilled
    \/ WatchedExits
    \/ WorkerHandleResolves

CliNext == LauncherNext \/ WorkerNext \/ EnvNext

(***************************************************************************)
(* Part 4: cli.rs, the match of Cli::run and the foreground run            *)
(***************************************************************************)

\* The exit codes of the user command that are tried.
ChildCodes == {0, 1, 255}

\* Exit codes only a child on a Windows host can report: ExitStatus::code() is
\* an i32, on Windows the 32-bit code of the process, on POSIX 0..255.
WindowsChildCodes == {256, 257}

\* The signals wait_for_signal waits for.
Signals == {"SIGTERM", "SIGINT"}

\* The match on what_to_run, arm by arm in the order of the source.
SelectMode(command, while, worker) ==
    IF command /\ ~while /\ ~worker THEN "foreground"
    ELSE IF ~command /\ while /\ ~worker THEN "launcher"
    ELSE IF ~command /\ while /\ worker THEN "worker"
    ELSE IF ~while /\ worker THEN "panic"
    ELSE IF (~command /\ ~while) \/ (command /\ while) THEN "usage"
    ELSE "none"

NoChild == [state |-> "none", code |-> -1, env |-> NoName]

FgInit(on) ==
    /\ what_to_run \in IF on THEN [command : BOOLEAN, while : BOOLEAN, worker : BOOLEAN]
                             ELSE {[command |-> FALSE, while |-> FALSE, worker |-> FALSE]}
    /\ custom_context_name \in IF on THEN CustomNames \cup {NoName} ELSE {NoName}
    /\ mode = "none"
    /\ fgPc = IF on THEN "parsed" ELSE "off"
    /\ child = NoChild
    /\ fgResult = <<"none", "">>
    /\ fgExit = -1

\* The process ends with `code`: Cli::run returned or was dropped, or the
\* process exited in it.  A DockerContext that is alive is dropped.
FgEnds(kind, value, code) ==
    /\ fgPc' = "done"
    /\ fgResult' = <<kind, value>>
    /\ fgExit' = code
    /\ IF ctxPc[Owner] = "held"
         THEN /\ Drop(Owner)
              /\ ctxPc' = [ctxPc EXCEPT ![Owner] = "dropped"]
              /\ UNCHANGED <<ctxName, ctxErr, keepalive_handle, dockerd_handle, wrapResult>>
         ELSE UNCHANGED ctxVars

\* Lines 77-229: the match.  The foreground arm goes on below; the launcher and
\* the worker arms are Part 3; the panic arm and the usage arm end the process.
FgSelect ==
    /\ fgPc = "parsed"
    /\ mode' = SelectMode(what_to_run.command, what_to_run.while, what_to_run.worker)
    /\ CASE mode' = "foreground" ->
              /\ fgPc' = "bringup"
              /\ UNCHANGED <<fgResult, fgExit>>
         [] mode' \in {"launcher", "worker"} ->
              /\ fgPc' = "otherMode"
              /\ UNCHANGED <<fgResult, fgExit>>
         [] mode' = "panic" ->
              /\ fgPc' = "done"
              /\ fgResult' = <<"panic", "--worker but no --while?">>
              /\ fgExit' = 101
         [] OTHER ->
              /\ fgPc' = "done"
              /\ fgResult' = <<"usage", "provide exactly one of COMMAND and '--while'">>
              /\ fgExit' = 2
    /\ UNCHANGED <<what_to_run, custom_context_name, child, ctxVars, outsideFg>>

\* Line 81, WorkerConfig::spawn before it publishes: the bring-up is ready to
\* publish, or fails and `?` returns its error.
FgBringUp ==
    /\ fgPc = "bringup"
    /\ \/ /\ fgPc' = "publish"
          /\ UNCHANGED <<fgResult, fgExit, ctxVars>>
       \/ FgEnds("Err", "bring-up", 1)
    /\ UNCHANGED <<what_to_run, custom_context_name, mode, child, outsideFg>>

\* Line 81, WorkerConfig::spawn publishes: DockerContext::new is called.
FgPublishBegin ==
    /\ fgPc = "publish"
    /\ NewBegin(Owner, custom_context_name)
    /\ IF ctxPc'[Owner] = "newErr"
         THEN /\ fgPc' = "done"
              /\ fgResult' = <<"Err", ctxErr'[Owner]>>
              /\ fgExit' = 1
         ELSE /\ fgPc' = "publishing"
              /\ UNCHANGED <<fgResult, fgExit>>
    /\ UNCHANGED <<what_to_run, custom_context_name, mode, child, outsideFg>>

\* Line 81, WorkerConfig::spawn publishes: DockerContext::new goes on, and
\* spawn returns its DockerContext or its error.
FgPublishStep ==
    /\ fgPc = "publishing"
    /\ NewStep(Owner)
    /\ CASE ctxPc'[Owner] = "held" ->
              /\ fgPc' = "holding"
              /\ UNCHANGED <<fgResult, fgExit>>
         [] ctxPc'[Owner] = "newErr" ->
              /\ fgPc' = "done"
              /\ fgResult' = <<"Err", ctxErr'[Owner]>>
              /\ fgExit' = 1
         [] OTHER -> UNCHANGED <<fgPc, fgResult, fgExit>>
    /\ UNCHANGED <<what_to_run, custom_context_name, mode, child, outsideFg>>

\* run_user_command as it would be with the process's own pid as DOCKER_CONTEXT.
ChildEnvDefaultName(docker_context_name) == DefaultName[Owner]

\* Line 239: .env("DOCKER_CONTEXT", docker_context_name.into())
ChildEnv(docker_context_name) == docker_context_name

\* Lines 82-84 and 235-240: docker_context.name() is taken and the first poll
\* of user_command spawns the child, or fails to.
FgSpawnUserCommand ==
    /\ fgPc = "holding"
    /\ \/ /\ child' = [state |-> "running", code |-> -1, env |-> ChildEnv(ctxName[Owner])]
          /\ fgPc' = "racing"
          /\ UNCHANGED <<fgResult, fgExit, ctxVars>>
       \/ /\ FgEnds("Err", "spawning the user command", 1)
          /\ UNCHANGED child
    /\ UNCHANGED <<what_to_run, custom_context_name, mode, outsideFg>>

\* The user command exits with a code.
ChildExits(code) ==
    /\ child.state = "running"
    /\ child' = [child EXCEPT !.state = "exited", !.code = code]
    /\ UNCHANGED <<what_to_run, custom_context_name, mode, fgPc, fgResult, fgExit, ctxVars,
                   outsideFg>>

\* The user command is terminated by a signal.
ChildKilled ==
    /\ child.state = "running"
    /\ child' = [child EXCEPT !.state = "signaled"]
    /\ UNCHANGED <<what_to_run, custom_context_name, mode, fgPc, fgResult, fgExit, ctxVars,
                   outsideFg>>

\* run_user_command as it would be if a signalled child counted as exit code 0.
StatusResultLenient(state, code) ==
    IF state = "exited" THEN <<"Ok", code % 256>> ELSE <<"Ok", 0>>

\* Lines 243-246: exit_status.code() is Some(code) => ExitCode::from(code as u8),
\* None (a signal) => bail!.
StatusResult(state, code) ==
    IF state = "exited" THEN <<"Ok", code % 256>> ELSE <<"Err", "command did not exit">>

\* Lines 90-93 and 241-246: child.wait() resolves, the child is reaped, and the
\* user_command arm returns what run_user_command returned.
FgChildArm ==
    /\ fgPc = "racing"
    /\ child.state \in {"exited", "signaled"}
    /\ child' = [child EXCEPT !.state = "reaped"]
    /\ LET r == StatusResult(child.state, child.code)
       IN  FgEnds(r[1], r[2], IF r[1] = "Ok" THEN r[2] ELSE 1)
    /\ UNCHANGED <<what_to_run, custom_context_name, mode, outsideFg>>

\* Lines 85-89: the docker_context arm fires, before or after the child was
\* spawned; the user_command future is dropped and the child, if there is one,
\* is left as it is.
FgContextArm ==
    /\ fgPc \in {"holding", "racing"}
    /\ Poll(keepalive_handle[Owner], dockerd_handle[Owner]) # "pending"
    /\ IF Poll(keepalive_handle[Owner], dockerd_handle[Owner]) = "Ok(())"
         THEN FgEnds("panic", "should not complete cleanly", 101)
         ELSE FgEnds("Err", Poll(keepalive_handle[Owner], dockerd_handle[Owner]), 1)
    /\ UNCHANGED <<what_to_run, custom_context_name, mode, child, outsideFg>>

\* shutdown.rs, wait_for_signal, raced by the entry point against Cli::run: a
\* signal arrives while Cli::run is suspended, the future of Cli::run is dropped
\* with all it holds, and the process exits with a failure.
FgSignal(sig) ==
    /\ fgPc \in {"bringup", "racing"}
    /\ FgEnds("signal", sig, 1)
    /\ UNCHANGED <<what_to_run, custom_context_name, mode, child, outsideFg>>

\* The keepalive or the dockerd task of the foreground run's context ends.
FgHandleResolves ==
    /\ fgPc \in {"holding", "racing"}
    /\ \/ KeepaliveResolves(Owner)
       \/ DockerdResolves(Owner)
    /\ UNCHANGED <<fgVars, outsideFg>>

FgNext ==
    \/ FgSelect
    \/ FgBringUp
    \/ FgPublishBegin
    \/ FgPublishStep
    \/ FgSpawnUserCommand
    \/ \E code \in ChildCodes : ChildExits(code)
    \/ ChildKilled
    \/ FgChildArm
    \/ FgContextArm
    \/ \E sig \in Signals : FgSignal(sig)
    \/ FgHandleResolves

\* The foreground run on a Windows host, where the user command can exit with
\* a code beyond 255 as well.
FgNextWindows ==
    \/ FgNext
    \/ \E code \in WindowsChildCodes : ChildExits(code)

(***************************************************************************)
(* Part 5: worker.rs, keepalive() against the watchdog of the VM, in       *)
(* seconds                                                                 *)
(***************************************************************************)

KEEPALIVE_INTERVAL == 5

KEEPALIVE_TIMEOUT == 15

\* The longest a call of keepalive() is let to take before it returns or fails.
MaxRoundSecs == 6

Max(a, b) == IF a >= b THEN a ELSE b

\* The bootstrap script as it would be with one second less substituted.
RenderKeepaliveTimeoutShort(secs) == secs - 1

\* .replace("{{keepalive_timeout}}", &KEEPALIVE_TIMEOUT.as_secs().to_string())
RenderKeepaliveTimeout(secs) == secs

\* keepalive() as it would be if it slept for the timeout.
SleepSecsAsTimeout == KEEPALIVE_TIMEOUT

\* sleep(KEEPALIVE_INTERVAL)
SleepSecs == KEEPALIVE_INTERVAL

\* A watchdog that waits for more than the bootstrap script's timeout.
WatchdogDueLate == sinceRefresh > keepalive_timeout

\* The watchdog's contract: /fleeting/keepalive untouched for
\* {{keepalive_timeout}} seconds.
WatchdogDue == sinceRefresh >= keepalive_timeout

VmInit(on) ==
    /\ vm = "none"
    /\ keepalive_timeout = 0
    /\ sinceRefresh = 0
    /\ kaPc = IF on THEN "unstarted" ELSE "off"
    /\ kaClock = 0
    /\ roundRefreshed = FALSE
    /\ maxRound = 0
    /\ kaRefreshed = FALSE

KaRunning == kaPc \in {"calling", "sleeping"}

\* vm_provider.spawn(&user_data): the VM comes up with the rendered bootstrap
\* script, which installs the watchdog; the keepalive file is fresh.
VmLaunched ==
    /\ kaPc = "unstarted"
    /\ vm = "none"
    /\ vm' = "armed"
    /\ keepalive_timeout' = RenderKeepaliveTimeout(KEEPALIVE_TIMEOUT)
    /\ sinceRefresh' = 0
    /\ UNCHANGED <<kaPc, kaClock, roundRefreshed, maxRound, kaRefreshed, outsideVm>>

\* One second passes.  The watchdog acts as soon as it is due and the sleep of
\* keepalive() ends as soon as it is over; a call takes at most MaxRoundSecs.
Tick ==
    /\ vm = "armed" \/ KaRunning
    /\ vm = "armed" => sinceRefresh < keepalive_timeout
    /\ kaPc = "sleeping" => kaClock < SleepSecs
    /\ kaPc = "calling" => kaClock < MaxRoundSecs
    /\ sinceRefresh' = IF vm = "armed" THEN sinceRefresh + 1 ELSE sinceRefresh
    /\ kaClock' = IF KaRunning THEN kaClock + 1 ELSE kaClock
    /\ maxRound' = IF kaPc = "calling" THEN Max(maxRound, kaClock + 1) ELSE maxRound
    /\ UNCHANGED <<vm, keepalive_timeout, kaPc, roundRefreshed, kaRefreshed, outsideVm>>

\* The keepalive task is started on the session to the VM and makes its first
\* call.
KeepaliveStart ==
    /\ kaPc = "unstarted"
    /\ vm = "armed"
    /\ kaPc' = "calling"
    /\ kaClock' = 0
    /\ roundRefreshed' = FALSE
    /\ UNCHANGED <<vm, keepalive_timeout, sinceRefresh, maxRound, kaRefreshed, outsideVm>>

\* session.call("/fleeting/extend-timeout") reaches the VM, at some point of the
\* call: the keepalive is refreshed.
KeepaliveRefresh ==
    /\ kaPc = "calling"
    /\ ~roundRefreshed
    /\ vm = "armed"
    /\ sinceRefresh' = 0
    /\ roundRefreshed' = TRUE
    /\ kaRefreshed' = TRUE
    /\ UNCHANGED <<vm, keepalive_timeout, kaPc, kaClock, maxRound, outsideVm>>

\* The call returns exit code 0, and keepalive() sleeps.
KeepaliveCallReturns ==
    /\ kaPc = "calling"
    /\ roundRefreshed
    /\ vm = "armed"
    /\ kaPc' = "sleeping"
    /\ kaClock' = 0
    /\ UNCHANGED <<vm, keepalive_timeout, sinceRefresh, roundRefreshed, maxRound, kaRefreshed,
                   outsideVm>>

\* The call fails, as it does when the VM is gone, and `?` ends keepalive().
KeepaliveCallFails ==
    /\ kaPc = "calling"
    /\ kaPc' = "stopped"
    /\ UNCHANGED <<vm, keepalive_timeout, sinceRefresh, kaClock, roundRefreshed, maxRound,
                   kaRefreshed, outsideVm>>

\* The sleep is over and the loop calls again.
KeepaliveWakes ==
    /\ kaPc = "sleeping"
    /\ kaClock = SleepSecs
    /\ kaPc' = "calling"
    /\ kaClock' = 0
    /\ roundRefreshed' = FALSE
    /\ UNCHANGED <<vm, keepalive_timeout, sinceRefresh, maxRound, kaRefreshed, outsideVm>>

\* The owning process stops sending keepalives: it dies, it is cancelled, its
\* bring-up fails after the launch, or the worker aborts.
OwnerStops ==
    /\ vm # "none"
    /\ kaPc \in {"unstarted", "calling", "sleeping"}
    /\ kaPc' = "stopped"
    /\ UNCHANGED <<vm, keepalive_timeout, sinceRefresh, kaClock, roundRefreshed, maxRound,
                   kaRefreshed, outsideVm>>

\* The watchdog of the bootstrap script terminates the VM.
WatchdogFires ==
    /\ vm = "armed"
    /\ WatchdogDue
    /\ vm' = "terminated"
    /\ UNCHANGED <<keepalive_timeout, sinceRefresh, kaPc, kaClock, roundRefreshed, maxRound,
                   kaRefreshed, outsideVm>>

VmNext ==
    \/ VmLaunched
    \/ Tick
    \/ KeepaliveStart
    \/ KeepaliveRefresh
    \/ KeepaliveCallReturns
    \/ KeepaliveCallFails
    \/ KeepaliveWakes
    \/ OwnerStops
    \/ WatchdogFires

(***************************************************************************)
(* Part 6: eventually.rs, eventually(), in seconds                         *)
(***************************************************************************)

\* The delays, the timeouts and the durations of one attempt that are tried.
SleepBetweens == {1, 2}

MaxTotalTimeout == 3

MaxAttemptSecs == 2

\* What one attempt can yield.
Outcomes == {"Ok", "TempErr", "PermErr"}

\* The value or the error that attempt n yields.
Yielded(n) == <<"of attempt", n>>

EvInit(on) ==
    /\ sleep_between \in IF on THEN SleepBetweens ELSE {0}
    /\ total_timeout \in IF on THEN 0..MaxTotalTimeout ELSE {0}
    /\ evPc = IF on THEN "start" ELSE "off"
    /\ now = 0
    /\ deadline = -1
    /\ attempt_no = 0
    /\ evClock = 0
    /\ evResult = <<"none">>
    /\ attempts = <<>>

\* Lines 23 and 25: attempt_no += 1; attempt() is called.
BeginAttempt ==
    /\ attempt_no' = attempt_no + 1
    /\ evPc' = "attempting"
    /\ evClock' = 0
    /\ attempts' = Append(attempts, [no |-> attempt_no + 1, start |-> now, end |-> -1,
                                     outcome |-> "none", slept |-> FALSE])

\* Lines 20-25: the deadline is set and the first attempt begins.
EvStart ==
    /\ evPc = "start"
    /\ deadline' = now + total_timeout
    /\ BeginAttempt
    /\ UNCHANGED <<sleep_between, total_timeout, now, evResult, outsideEv>>

\* One second passes, in an attempt or in the sleep; the sleep lasts exactly
\* sleep_between.
EvTick ==
    /\ \/ evPc = "attempting" /\ evClock < MaxAttemptSecs
       \/ evPc = "sleeping" /\ evClock < sleep_between
    /\ now' = now + 1
    /\ evClock' = evClock + 1
    /\ UNCHANGED <<sleep_between, total_timeout, evPc, deadline, attempt_no, evResult,
                   attempts, outsideEv>>

\* Line 30 as it would be if the loop never gave up.
GiveUpNever(t) == FALSE

\* Line 30 as it would be without the delay in the comparison.
GiveUpWhenPastDeadline(t) == t > deadline

\* Line 30 as it would be with >=.
GiveUpWhenReachingDeadline(t) == t + sleep_between >= deadline

\* Line 30: SystemTime::now() + sleep_between > deadline
GiveUp(t) == t + sleep_between > deadline

\* The match as it would be if a permanent error were retried like a
\* temporary one.
DecideRetryingPermErr(outcome, t) ==
    IF outcome = "Ok" THEN "break"
    ELSE IF GiveUp(t) THEN "break" ELSE "sleep"

\* Lines 25-36: the match on what the attempt yielded.
Decide(outcome, t) ==
    CASE outcome = "Ok" -> "break"
      [] outcome = "PermErr" -> "break"
      [] outcome = "TempErr" -> IF GiveUp(t) THEN "break" ELSE "sleep"

\* Lines 25-36: the attempt yields, and eventually() returns or goes to sleep.
EvAttemptYields(outcome) ==
    /\ evPc = "attempting"
    /\ LET goes == Decide(outcome, now)
       IN  /\ attempts' = [attempts EXCEPT ![attempt_no] =
                              [@ EXCEPT !.end = now, !.outcome = outcome,
                                        !.slept = (goes = "sleep")]]
           /\ IF goes = "break"
                THEN /\ evPc' = "done"
                     /\ evResult' = <<IF outcome = "Ok" THEN "Ok" ELSE "Err",
                                      Yielded(attempt_no)>>
                     /\ UNCHANGED evClock
                ELSE /\ evPc' = "sleeping"
                     /\ evClock' = 0
                     /\ UNCHANGED evResult
    /\ UNCHANGED <<sleep_between, total_timeout, now, deadline, attempt_no, outsideEv>>

\* Lines 34 and 22-25: the sleep is over and the loop makes the next attempt.
EvWakes ==
    /\ evPc = "sleeping"
    /\ evClock = sleep_between
    /\ BeginAttempt
    /\ UNCHANGED <<sleep_between, total_timeout, now, deadline, evResult, outsideEv>>

EvNext ==
    \/ EvStart
    \/ EvTick
    \/ \E outcome \in Outcomes : EvAttemptYields(outcome)
    \/ EvWakes

(***************************************************************************)
(* Part 7: steps.rs, the current step and its handles                      *)
(***************************************************************************)

\* Option::None for CURRENT_STEP and Step.parent; steps are 1, 2, ...
None == 0

\* How many Steps are allocated, how many handles are alive at once, and how
\* many steps a start() can announce, at most.
MaxSteps == 5

MaxHandles == 3

MaxTotal == 3

\* The steps of a process that has not called start() yet; `on` is whether the
\* specification goes on to call it.
StepInit(on) ==
    /\ CURRENT_STEP = None
    /\ arena = <<>>
    /\ handles = <<>>
    /\ stepPanic = FALSE

\* The sequence without its i-th element.
Without(seq, i) == SubSeq(seq, 1, i - 1) \o SubSeq(seq, i + 1, Len(seq))

\* Line 47 as it would be if it cleared the current step.
RestoredByDropCleared(step) == None

\* Line 47: *current_step_guard = current_step.parent.clone()
RestoredByDrop(step) == arena[step].parent

\* Lines 41-46: Drop panics when there is no current step or when the current
\* step is not the one of the handle.
DropPanics(h) == CURRENT_STEP = None \/ CURRENT_STEP # h.step

\* Lines 25-34, StepHandle::new: the new Step takes the current step as its
\* parent and becomes the current step.  `cur` is the current step when new()
\* is called, `before` the step that was current before the outermost start.
NewHandle(cur, preceding, remaining, before, others) ==
    /\ arena' = Append(arena, [parent |-> cur, number |-> preceding + 1,
                               total |-> preceding + 1 + remaining])
    /\ CURRENT_STEP' = Len(arena) + 1
    /\ handles' = Append(others, [step |-> Len(arena) + 1, preceding |-> preceding,
                                  remaining |-> remaining, before |-> before])

\* A Drop panics: take() has emptied CURRENT_STEP, and the handle is gone.
StepPanics(i) ==
    /\ stepPanic' = TRUE
    /\ CURRENT_STEP' = None
    /\ handles' = Without(handles, i)
    /\ UNCHANGED arena

\* Lines 59-61: start::<Remaining>()
StepStart(remaining) ==
    /\ ~stepPanic
    /\ Len(handles) < MaxHandles
    /\ Len(arena) < MaxSteps
    /\ NewHandle(CURRENT_STEP, 0, remaining, CURRENT_STEP, handles)
    /\ UNCHANGED <<stepPanic, outsideStep>>

\* next() as it would be without the One<Remaining> bound of line 52, so that
\* a final handle could move on too.
StepNextOnFinal(i) ==
    /\ ~stepPanic
    /\ Len(arena) < MaxSteps
    /\ IF DropPanics(handles[i])
         THEN StepPanics(i)
         ELSE /\ NewHandle(RestoredByDrop(handles[i].step), handles[i].preceding + 1,
                           handles[i].remaining - 1, handles[i].before,
                           Without(handles, i))
              /\ UNCHANGED stepPanic
    /\ UNCHANGED outsideStep

\* Lines 52-57: next(self) on a non-final handle: drop(self), then new().
StepNext(i) ==
    /\ ~stepPanic
    /\ Len(arena) < MaxSteps
    /\ handles[i].remaining >= 1
    /\ IF DropPanics(handles[i])
         THEN StepPanics(i)
         ELSE /\ NewHandle(RestoredByDrop(handles[i].step), handles[i].preceding + 1,
                           handles[i].remaining - 1, handles[i].before,
                           Without(handles, i))
              /\ UNCHANGED stepPanic
    /\ UNCHANGED outsideStep

\* Lines 39-49 and 64: a handle is dropped, by end() when it is final, or by
\* going out of scope on an early return.
StepEnd(i) ==
    /\ ~stepPanic
    /\ IF DropPanics(handles[i])
         THEN StepPanics(i)
         ELSE /\ CURRENT_STEP' = RestoredByDrop(handles[i].step)
              /\ handles' = Without(handles, i)
              /\ UNCHANGED <<arena, stepPanic>>
    /\ UNCHANGED outsideStep

StepsNext ==
    \/ \E remaining \in 0..(MaxTotal - 1) : StepStart(remaining)
    \/ \E i \in 1..Len(handles) : StepNext(i)
    \/ \E i \in 1..Len(handles) : StepEnd(i)

(***************************************************************************)
(* Part 8: vm_providers, Ec2::spawn and the wait loop of Gce::spawn        *)
(***************************************************************************)

Providers == {"ec2", "gce"}

\* aws_sdk_ec2::types::ArchitectureType
ArchitectureTypes == {"Arm64", "X8664", "I386", "X8664Mac"}

Arm64Image ==
    "resolve:ssm:/aws/service/canonical/ubuntu/server/24.04/stable/current/arm64/hvm/ebs-gp3/ami-id"

Amd64Image ==
    "resolve:ssm:/aws/service/canonical/ubuntu/server/24.04/stable/current/amd64/hvm/ebs-gp3/ami-id"

Unsupported == "unsupported instance type architectures"

\* Lines 86-92 as they would be with the two tests in the other order.
ImageForPreferringAmd64(archs) ==
    IF "X8664" \in archs THEN Amd64Image
    ELSE IF "Arm64" \in archs THEN Arm64Image
    ELSE Unsupported

\* ec2.rs lines 86-92: the image for the architectures of the instance type.
ImageFor(archs) ==
    IF "Arm64" \in archs THEN Arm64Image
    ELSE IF "X8664" \in archs THEN Amd64Image
    ELSE Unsupported

\* The states in which the wait loop sleeps and polls again, by provider.
StillStarting ==
    [ec2 |-> {"NotFound", "Pending"}, gce |-> {"Provisioning", "Staging"}]

\* The states an instance can be reported in, by provider.
InstanceStates ==
    [ec2 |-> {"NotFound", "Pending", "Running", "Terminated"},
     gce |-> {"Provisioning", "Staging", "Running", "Terminated"}]

ProvInit(on) ==
    /\ provider \in IF on THEN Providers ELSE {"ec2"}
    /\ provPc = IF on THEN "config" ELSE "off"
    /\ instance_type_archs = {}
    /\ image_id = "none"
    /\ security_group = "none"
    /\ instance = "none"
    /\ provResult = <<"none", "">>

\* spawn returns Err(msg) (kind "Err") or unwinds from a panic (kind "panic").
ProvFails(kind, msg) ==
    /\ provPc' = "done"
    /\ provResult' = <<kind, msg>>

\* ec2.rs lines 46-72: configuration, region, credentials.
Ec2LoadConfig ==
    /\ provider = "ec2"
    /\ provPc = "config"
    /\ \/ provPc' = "lookup" /\ UNCHANGED provResult
       \/ ProvFails("Err", "get_caller_identity")
    /\ UNCHANGED <<provider, instance_type_archs, image_id, security_group, instance,
                   outsideProv>>

\* ec2.rs lines 74-93: the instance type is looked up and the image chosen.
Ec2LookupInstanceType ==
    /\ provider = "ec2"
    /\ provPc = "lookup"
    /\ \/ \E archs \in SUBSET ArchitectureTypes :
            /\ instance_type_archs' = archs
            /\ IF ImageFor(archs) = Unsupported
                 THEN /\ ProvFails("Err", Unsupported)
                      /\ UNCHANGED image_id
                 ELSE /\ image_id' = ImageFor(archs)
                      /\ provPc' = "securityGroup"
                      /\ UNCHANGED provResult
       \/ /\ ProvFails("Err", "describe_instance_types")
          /\ UNCHANGED <<instance_type_archs, image_id>>
       \/ /\ ProvFails("panic", "expected exactly one: instance_type")
          /\ UNCHANGED <<instance_type_archs, image_id>>
    /\ UNCHANGED <<provider, security_group, instance, outsideProv>>

\* ec2.rs lines 95-97 and 196-227: get_or_create_security_group.
Ec2SecurityGroup ==
    /\ provider = "ec2"
    /\ provPc = "securityGroup"
    /\ \/ /\ security_group' \in {"existed", "created"}
          /\ provPc' = "launch"
          /\ UNCHANGED provResult
       \/ /\ ProvFails("Err", "security group")
          /\ security_group' \in {"none", "created"}
    /\ UNCHANGED <<provider, instance_type_archs, image_id, instance, outsideProv>>

\* ec2.rs lines 99-136: run_instances.
Ec2RunInstances ==
    /\ provider = "ec2"
    /\ provPc = "launch"
    /\ \/ /\ instance' \in {"NotFound", "Pending"}
          /\ provPc' = "polling"
          /\ UNCHANGED provResult
       \/ /\ ProvFails("Err", "run_instances")
          /\ UNCHANGED instance
    /\ UNCHANGED <<provider, instance_type_archs, image_id, security_group, outsideProv>>

\* gce.rs lines 67-254: configuration, deletion of terminated instances, image
\* lookup and the insertion of the instance.
GceLaunch ==
    /\ provider = "gce"
    /\ provPc = "config"
    /\ \/ /\ instance' = "Provisioning"
          /\ image_id' \in {"ubuntu-2404-lts-arm64", "ubuntu-2404-lts-amd64"}
          /\ provPc' = "polling"
          /\ UNCHANGED provResult
       \/ /\ ProvFails("Err", "failed to launch instance")
          /\ UNCHANGED <<instance, image_id>>
    /\ UNCHANGED <<provider, instance_type_archs, security_group, outsideProv>>

\* ec2.rs lines 141-167 and gce.rs lines 258-278: one round of the wait loop:
\* the instance is retrieved; it is running, or still starting and the loop
\* sleeps, or in another state, or the call fails.
ProvPoll ==
    /\ provPc = "polling"
    /\ \/ /\ instance = "Running"
          /\ provPc' = "done"
          /\ provResult' = <<"Ok", "public_ip">>
       \/ /\ instance \in StillStarting[provider]
          /\ provPc' = "sleeping"
          /\ UNCHANGED provResult
       \/ /\ instance \notin StillStarting[provider] \cup {"Running"}
          /\ ProvFails("Err", "instance transitioned into state")
       \/ ProvFails("Err", "retrieving the instance")
    /\ UNCHANGED <<provider, instance_type_archs, image_id, security_group, instance,
                   outsideProv>>

\* ec2.rs lines 149, 161 and gce.rs line 273: sleep(1 s) is over, the loop
\* goes round.
ProvWakes ==
    /\ provPc = "sleeping"
    /\ provPc' = "polling"
    /\ UNCHANGED <<provider, instance_type_archs, image_id, security_group, instance,
                   provResult, outsideProv>>

\* The cloud moves the instance to another state.
InstanceChanges ==
    /\ instance \in StillStarting[provider]
    /\ instance' \in InstanceStates[provider] \ {instance, "NotFound"}
    /\ UNCHANGED <<provider, provPc, instance_type_archs, image_id, security_group,
                   provResult, outsideProv>>

\* The steps of spawn.
ProvStep ==
    \/ Ec2LoadConfig
    \/ Ec2LookupInstanceType
    \/ Ec2SecurityGroup
    \/ Ec2RunInstances
    \/ GceLaunch
    \/ ProvPoll
    \/ ProvWakes

ProvNext ==
    \/ ProvStep
    \/ InstanceChanges

(***************************************************************************)
(* Part 9: ssh.rs, exec_to_completion, exec_passthru and read_file         *)
(***************************************************************************)

\* The bytes that are tried: a letter, the newline, and a byte that is not
\* valid UTF-8.
InvalidByte == "x"

Bytes == {"a", "\n", InvalidByte}

\* How many bytes the two streams carry together, and how long one data
\* message is, at most.
MaxBytes == 3

MaxChunk == 2

Chunks == UNION {[1..n -> Bytes] : n \in 1..MaxChunk}

Streams == {"stdout", "stderr"}

StreamModes == {"Capture", "Log"}

Callers == {"exec_to_completion", "exec_passthru", "read_file"}

\* The exit statuses that are tried, and Option::None for `chCode`.
ExitStatuses == {0, 1}

NoCode == -1

\* Option<CryptoVec>
NoneBuf == <<"None">>

SomeBuf(bytes) == <<"Some", bytes>>

\* The context exec_passthru is given.
TheContext == "context"

NoResult == [kind |-> "none", value |-> <<>>, msg |-> "", context |-> ""]

NoOutcome ==
    [kind |-> "none", code |-> NoCode, stdout |-> NoneBuf, stderr |-> NoneBuf, msg |-> ""]

ErrOutcome(msg) ==
    [kind |-> "Err", code |-> NoCode, stdout |-> NoneBuf, stderr |-> NoneBuf, msg |-> msg]

ChInit(on) ==
    /\ chPc = IF on THEN "idle" ELSE "off"
    /\ caller = "none"
    /\ err_on_nonzero = FALSE
    /\ stdout_mode = "Capture"
    /\ stderr_mode = "Capture"
    /\ stdout_buf = <<>>
    /\ stderr_buf = <<>>
    /\ chCode = NoCode
    /\ received = [s \in Streams |-> <<>>]
    /\ chunks = [s \in Streams |-> 0]
    /\ lateData = FALSE
    /\ ignoredMsg = FALSE
    /\ logged = <<>>
    /\ execOutcome = NoOutcome
    /\ chResult = NoResult

\* Line 57: buf.iter().position(|byte| *byte == b'\n'), 0 for None.
position(buf) ==
    IF \E i \in 1..Len(buf) : buf[i] = "\n"
      THEN CHOOSE i \in 1..Len(buf) :
               buf[i] = "\n" /\ \A j \in 1..(i - 1) : buf[j] # "\n"
      ELSE 0

\* Line 58: std::str::from_utf8(line) is Ok.
from_utf8(line) == \A i \in 1..Len(line) : line[i] # InvalidByte

\* Lines 57-61: while there is a newline in the buffer, the bytes before it are
\* decoded and logged as one line and the buffer goes on after the newline; a
\* line that is not UTF-8 ends the loop with an error.
RECURSIVE LogLoop(_)
LogLoop(buf) ==
    LET newline_pos == position(buf)
        line == SubSeq(buf, 1, newline_pos - 1)
    IN  IF newline_pos = 0 THEN [buf |-> buf, lines |-> <<>>, ok |-> TRUE]
        ELSE IF ~from_utf8(line) THEN [buf |-> buf, lines |-> <<>>, ok |-> FALSE]
        ELSE LET rest == LogLoop(SubSeq(buf, newline_pos + 1, Len(buf)))
             IN  [buf |-> rest.buf, lines |-> <<line>> \o rest.lines, ok |-> rest.ok]

\* Line 53 as it would be if the buffer kept the last message only.
ExtendKeepingLast(buf, data) == data

\* Line 53: buf.extend(&data)
Extend(buf, data) == buf \o data

\* Lines 52-65: handle_data_msg
handle_data_msg(buf, stream_mode, data) ==
    IF stream_mode = "Capture"
      THEN [buf |-> Extend(buf, data), lines |-> <<>>, ok |-> TRUE]
      ELSE LogLoop(Extend(buf, data))

\* Lines 83-91 as they would be with the exit status ignored.
CompleteIgnoringCode(c, e, om, em, ob, eb) ==
    [kind |-> "Ok", code |-> c,
     stdout |-> IF om = "Capture" THEN SomeBuf(ob) ELSE NoneBuf,
     stderr |-> IF em = "Capture" THEN SomeBuf(eb) ELSE NoneBuf,
     msg |-> ""]

\* Lines 83-91: the exit status is required, a non-zero one is an error when
\* err_on_nonzero, and the outcome holds the buffers of the captured streams.
Complete(c, e, om, em, ob, eb) ==
    IF c = NoCode THEN ErrOutcome("channel ended without ExitStatus")
    ELSE IF e /\ c # 0 THEN ErrOutcome("remote command returned")
    ELSE [kind |-> "Ok", code |-> c,
          stdout |-> IF om = "Capture" THEN SomeBuf(ob) ELSE NoneBuf,
          stderr |-> IF em = "Capture" THEN SomeBuf(eb) ELSE NoneBuf,
          msg |-> ""]

\* Lines 94-111: what the called operation makes of the outcome:
\* exec_passthru adds its context to an error and returns (), read_file
\* returns outcome.stdout.unwrap().
CallerResult(c, o) ==
    IF o.kind = "Err"
      THEN [kind |-> "Err", value |-> <<>>, msg |-> o.msg,
            context |-> IF c = "exec_passthru" THEN TheContext ELSE ""]
      ELSE [kind |-> "Ok", value |-> IF c = "read_file" THEN o.stdout[2] ELSE <<>>,
            msg |-> "", context |-> ""]

\* exec_to_completion returns, and with it the operation c that called it.
ChReturns(c, o) ==
    /\ chPc' = "done"
    /\ execOutcome' = o
    /\ chResult' = CallerResult(c, o)

\* Lines 39-46, 94-96, 100-109: one operation is called with its parameters,
\* and self.exec(true, command) succeeds or fails.
ChCall(c, e, om, em) ==
    /\ chPc = "idle"
    /\ c = "exec_passthru" => (e /\ om = "Log" /\ em = "Log")
    /\ c = "read_file" => (e /\ om = "Capture" /\ em = "Log")
    /\ caller' = c
    /\ err_on_nonzero' = e
    /\ stdout_mode' = om
    /\ stderr_mode' = em
    /\ \/ /\ chPc' = "waiting"
          /\ UNCHANGED <<execOutcome, chResult>>
       \/ ChReturns(c, ErrOutcome("exec"))
    /\ UNCHANGED <<stdout_buf, stderr_buf, chCode, received, chunks, lateData, ignoredMsg,
                   logged, outsideCh>>

\* Lines 69-74: a Data message (stdout) or an ExtendedData message with ext = 1
\* (stderr) is received and handled.
ChData(stream, data) ==
    /\ chPc = "waiting"
    /\ Len(received.stdout) + Len(received.stderr) + Len(data) <= MaxBytes
    /\ received' = [received EXCEPT ![stream] = @ \o data]
    /\ chunks' = [chunks EXCEPT ![stream] = @ + 1]
    /\ lateData' = (lateData \/ chCode # NoCode)
    /\ LET handled == IF stream = "stdout"
                        THEN handle_data_msg(stdout_buf, stdout_mode, data)
                        ELSE handle_data_msg(stderr_buf, stderr_mode, data)
       IN  /\ logged' = logged \o [i \in 1..Len(handled.lines) |->
                                      <<stream, handled.lines[i]>>]
           /\ IF stream = "stdout"
                THEN stdout_buf' = handled.buf /\ UNCHANGED stderr_buf
                ELSE stderr_buf' = handled.buf /\ UNCHANGED stdout_buf
           /\ IF handled.ok
                THEN UNCHANGED <<chPc, execOutcome, chResult>>
                ELSE ChReturns(caller, ErrOutcome("utf8"))
    /\ UNCHANGED <<caller, err_on_nonzero, stdout_mode, stderr_mode, chCode, ignoredMsg,
                   outsideCh>>

\* Lines 75-78: the exit status is received; the loop goes on.
ChExitStatus(exit_status) ==
    /\ chPc = "waiting"
    /\ chCode = NoCode
    /\ chCode' = exit_status
    /\ UNCHANGED <<chPc, caller, err_on_nonzero, stdout_mode, stderr_mode, stdout_buf,
                   stderr_buf, received, chunks, lateData, ignoredMsg, logged, execOutcome,
                   chResult, outsideCh>>

\* Line 79: any other message (Eof, ExtendedData with another ext, ...) is
\* ignored.
ChOther ==
    /\ chPc = "waiting"
    /\ ~ignoredMsg
    /\ ignoredMsg' = TRUE
    /\ UNCHANGED <<chPc, caller, err_on_nonzero, stdout_mode, stderr_mode, stdout_buf,
                   stderr_buf, chCode, received, chunks, lateData, logged, execOutcome,
                   chResult, outsideCh>>

\* Lines 67 and 82-91: wait() returns None, the channel is closed, and
\* exec_to_completion returns.
ChClose ==
    /\ chPc = "waiting"
    /\ \/ ChReturns(caller, ErrOutcome("close"))
       \/ ChReturns(caller, Complete(chCode, err_on_nonzero, stdout_mode,
                                     stderr_mode, stdout_buf, stderr_buf))
    /\ UNCHANGED <<caller, err_on_nonzero, stdout_mode, stderr_mode, stdout_buf,
                   stderr_buf, chCode, received, chunks, lateData, ignoredMsg, logged,
                   outsideCh>>

ChNext ==
    \/ \E c \in Callers, e \in BOOLEAN, om \in StreamModes, em \in StreamModes :
          ChCall(c, e, om, em)
    \/ \E stream \in Streams, data \in Chunks : ChData(stream, data)
    \/ \E exit_status \in ExitStatuses : ChExitStatus(exit_status)
    \/ ChOther
    \/ ChClose

(***************************************************************************)
(* Part 10: vm_providers, the garbage collection of Gce::spawn and         *)
(* Multipass::spawn                                                        *)
(***************************************************************************)

\* Two fleeting invocations that run at the same time, and their process ids.
Invocations == {"A", "B"}

PidOf == [i \in Invocations |-> IF i = "A" THEN "1" ELSE "2"]

GcProviders == {"gce", "multipass"}

\* A VM name, as its first part and the rest.
Fleeting(rest) == [prefix |-> "fleeting-", rest |-> rest]

UserVm == [prefix |-> "my-", rest |-> "vm"]

\* name.starts_with(prefix)
starts_with(name, prefix) == name.prefix = prefix

\* gce.rs 187-193: fleeting-<pid>-<random>; multipass.rs 77: fleeting-<pid>.
LaunchName(prov, i) ==
    IF prov = "gce" THEN Fleeting(PidOf[i] \o "-r") ELSE Fleeting(PidOf[i])

\* The names VMs have: one left by an earlier process whose id the system has
\* given out again, one of the user, and the ones the invocations launch.
OldNames == {Fleeting("2"), UserVm}

VmNames == OldNames \cup {LaunchName(prov, i) : prov \in GcProviders, i \in Invocations}

\* The states of a VM: Stopped is TERMINATED on GCE.
VmStates == {"Running", "Stopped"}

Absent == [state |-> "absent", owner |-> "none"]

GcInit(on) ==
    /\ gcProvider \in IF on THEN GcProviders ELSE {"none"}
    /\ instances \in
          IF on
            THEN {f \in [VmNames -> {Absent} \cup [state : VmStates, owner : {"none"}]] :
                     \A n \in VmNames \ OldNames : f[n] = Absent}
            ELSE {[n \in VmNames |-> Absent]}
    /\ gcPc = [i \in Invocations |-> IF on THEN "start" ELSE "off"]
    /\ orphan_names = [i \in Invocations |-> {}]
    /\ deletions = {}

\* The filter as it would be without the condition on the state.
ListFilterAnyState(name, state) == starts_with(name, "fleeting-")

\* gce.rs 80: (name = "fleeting-*") AND (status = TERMINATED);
\* multipass.rs 62: vm.name.starts_with("fleeting-") && vm.state == "Stopped"
ListFilter(name, state) == starts_with(name, "fleeting-") /\ state = "Stopped"

\* What one deletion removes, as it is at that moment.
Deleted(i, n) ==
    [by |-> i, name |-> n, state |-> instances[n].state, owner |-> instances[n].owner]

\* gce.rs 75-86, multipass.rs 59-64: the VMs are listed and the orphans
\* filtered, or the listing fails and spawn returns the error.
GcList(i) ==
    /\ gcPc[i] = "start"
    /\ \/ /\ orphan_names' = [orphan_names EXCEPT ![i] =
                {n \in VmNames : ListFilter(n, instances[n].state)}]
          /\ gcPc' = [gcPc EXCEPT ![i] = "listed"]
       \/ /\ gcPc' = [gcPc EXCEPT ![i] = "failed"]
          /\ UNCHANGED orphan_names
    /\ UNCHANGED <<gcProvider, instances, deletions, outsideGc>>

\* gce.rs 88-101: one round of the for loop: the instance of that name is
\* deleted, whatever it is by now; the call fails when there is none.
GceDelete(i, n) ==
    /\ gcProvider = "gce"
    /\ gcPc[i] = "listed"
    /\ n \in orphan_names[i]
    /\ starts_with(n, "fleeting-")
    /\ IF instances[n].state = "absent"
         THEN /\ gcPc' = [gcPc EXCEPT ![i] = "failed"]
              /\ UNCHANGED <<instances, deletions, orphan_names>>
         ELSE /\ instances' = [instances EXCEPT ![n] = Absent]
              /\ deletions' = deletions \cup {Deleted(i, n)}
              /\ orphan_names' = [orphan_names EXCEPT ![i] = @ \ {n}]
              /\ UNCHANGED gcPc
    /\ UNCHANGED <<gcProvider, outsideGc>>

\* multipass.rs 66-72: one `multipass delete --purge` with all the names: the
\* VMs of these names are deleted, whatever they are by now; the command fails
\* when one of them is not there.
MultipassDelete(i) ==
    /\ gcProvider = "multipass"
    /\ gcPc[i] = "listed"
    /\ orphan_names[i] # {}
    /\ LET there == {n \in orphan_names[i] : instances[n].state # "absent"}
       IN  /\ instances' = [n \in VmNames |-> IF n \in there THEN Absent ELSE instances[n]]
           /\ deletions' = deletions \cup {Deleted(i, n) : n \in there}
           /\ gcPc' = [gcPc EXCEPT ![i] =
                          IF there = orphan_names[i] THEN "launch" ELSE "failed"]
    /\ orphan_names' = [orphan_names EXCEPT ![i] = {}]
    /\ UNCHANGED <<gcProvider, outsideGc>>

\* gce.rs 102 and multipass.rs 66: nothing is left to delete.
GcPurged(i) ==
    /\ gcPc[i] = "listed"
    /\ orphan_names[i] = {}
    /\ gcPc' = [gcPc EXCEPT ![i] = "launch"]
    /\ UNCHANGED <<gcProvider, instances, orphan_names, deletions, outsideGc>>

\* gce.rs 185-254, multipass.rs 75-130: the VM is launched under the name of
\* this invocation; the launch fails when the name is taken, or for another
\* reason.
GcLaunch(i) ==
    /\ gcPc[i] = "launch"
    /\ \/ /\ instances[LaunchName(gcProvider, i)].state = "absent"
          /\ instances' = [instances EXCEPT ![LaunchName(gcProvider, i)] =
                              [state |-> "Running", owner |-> i]]
          /\ gcPc' = [gcPc EXCEPT ![i] = "up"]
       \/ /\ gcPc' = [gcPc EXCEPT ![i] = "failed"]
          /\ UNCHANGED instances
    /\ UNCHANGED <<gcProvider, orphan_names, deletions, outsideGc>>

\* A running VM shuts itself down: its watchdog, or the end of its work.
GcVmStops(n) ==
    /\ instances[n].state = "Running"
    /\ instances' = [instances EXCEPT ![n].state = "Stopped"]
    /\ UNCHANGED <<gcProvider, gcPc, orphan_names, deletions, outsideGc>>

\* An invocation that has its VM comes to its end.
GcInvocationEnds(i) ==
    /\ gcPc[i] = "up"
    /\ gcPc' = [gcPc EXCEPT ![i] = "ended"]
    /\ UNCHANGED <<gcProvider, instances, orphan_names, deletions, outsideGc>>

GcNext ==
    \/ \E i \in Invocations : GcList(i)
    \/ \E i \in Invocations, n \in VmNames : GceDelete(i, n)
    \/ \E i \in Invocations : MultipassDelete(i)
    \/ \E i \in Invocations : GcPurged(i)
    \/ \E i \in Invocations : GcLaunch(i)
    \/ \E n \in VmNames : GcVmStops(n)
    \/ \E i \in Invocations : GcInvocationEnds(i)

(***************************************************************************)
(* Part 11: vm_providers, the steps of one call of spawn                   *)
(***************************************************************************)

SpawnProviders == {"ec2", "gce", "multipass"}

\* The steps of spawn: one for start() and one for each next().
\* ec2.rs 49, 75, 95, 99, 142; gce.rs 67, 72, 105, 141, 185, 257;
\* multipass.rs 41, 56, 75, 132.
SpawnSteps(prov) ==
    CASE prov = "ec2" -> 5
      [] prov = "gce" -> 6
      [] prov = "multipass" -> 4

SpawnInit(on) ==
    /\ stepsPc = IF on THEN "idle" ELSE "off"
    /\ spawnProvider = "none"
    /\ spawnBefore = None
    /\ spawnResult = "none"

\* The handle spawn holds in its variable `step`: the one made last.
SpawnHandle == handles[Len(handles)]

\* The handle of spawn is dropped: by next(), by end(), or by leaving spawn
\* early; `to` is where spawn is after that.
SpawnDrops(to, result) ==
    IF DropPanics(SpawnHandle)
      THEN /\ StepPanics(Len(handles))
           /\ stepsPc' = "panicked"
           /\ UNCHANGED spawnResult
      ELSE /\ CURRENT_STEP' = RestoredByDrop(SpawnHandle.step)
           /\ handles' = Without(handles, Len(handles))
           /\ stepsPc' = to
           /\ spawnResult' = result
           /\ UNCHANGED <<arena, stepPanic>>

\* What a caller of spawn can have done before the call: opened a step of its
\* own, which stays open while spawn runs.
SpawnCallerStep(remaining) ==
    /\ stepsPc = "idle"
    /\ handles = <<>>
    /\ NewHandle(CURRENT_STEP, 0, remaining, CURRENT_STEP, handles)
    /\ UNCHANGED <<stepPanic, spawnVars, outsideSpawn>>

\* ec2.rs 49, gce.rs 67, multipass.rs 41: let step = steps::start()
SpawnStart(prov) ==
    /\ stepsPc = "idle"
    /\ stepsPc' = "running"
    /\ spawnProvider' = prov
    /\ spawnBefore' = CURRENT_STEP
    /\ NewHandle(CURRENT_STEP, 0, SpawnSteps(prov) - 1, CURRENT_STEP, handles)
    /\ UNCHANGED <<stepPanic, spawnResult, outsideSpawn>>

\* next() as it would be if the new handle were made before the old one is
\* dropped.
SpawnPhaseDoneDroppingLate ==
    /\ stepsPc = "running"
    /\ SpawnHandle.remaining >= 1
    /\ arena' = Append(arena, [parent |-> CURRENT_STEP,
                               number |-> SpawnHandle.preceding + 2,
                               total |-> arena[SpawnHandle.step].total])
    /\ handles' = Without(handles, Len(handles))
    /\ CURRENT_STEP' = None
    /\ stepPanic' = TRUE
    /\ stepsPc' = "panicked"
    /\ UNCHANGED <<spawnProvider, spawnBefore, spawnResult, outsideSpawn>>

\* ec2.rs 75, 95, 99, 142 and the like: the work of a step is done and
\* `let step: _ = step.next()` drops the handle and makes the next one.
SpawnPhaseDone ==
    /\ stepsPc = "running"
    /\ SpawnHandle.remaining >= 1
    /\ IF DropPanics(SpawnHandle)
         THEN /\ StepPanics(Len(handles))
              /\ stepsPc' = "panicked"
         ELSE /\ NewHandle(RestoredByDrop(SpawnHandle.step), SpawnHandle.preceding + 1,
                           SpawnHandle.remaining - 1, SpawnHandle.before,
                           Without(handles, Len(handles)))
              /\ UNCHANGED <<stepPanic, stepsPc>>
    /\ UNCHANGED <<spawnProvider, spawnBefore, spawnResult, outsideSpawn>>

\* A `?`, a bail! or a cancellation in the work of any step: spawn is left
\* with an error and `step` goes out of scope.
SpawnPhaseFails ==
    /\ stepsPc = "running"
    /\ SpawnDrops("returned", "Err")
    /\ UNCHANGED <<spawnProvider, spawnBefore, outsideSpawn>>

\* ec2.rs 170, gce.rs 292, multipass.rs 143: steps::end(step), and Ok(ip).
SpawnEnd ==
    /\ stepsPc = "running"
    /\ SpawnHandle.remaining = 0
    /\ SpawnDrops("returned", "Ok")
    /\ UNCHANGED <<spawnProvider, spawnBefore, outsideSpawn>>

SpawnNext ==
    \/ \E remaining \in 0..(MaxTotal - 1) : SpawnCallerStep(remaining)
    \/ \E prov \in SpawnProviders : SpawnStart(prov)
    \/ SpawnPhaseDone
    \/ SpawnPhaseFails
    \/ SpawnEnd

(***************************************************************************)
(* Specifications                                                          *)
(***************************************************************************)

vars == <<ctxVars, runVars, cliVars, fgVars, vmVars, moreVars>>

\* The steps of a process that does nothing but create and use a DockerContext.
CtxNext ==
    \E p \in Procs :
        \/ (\E custom \in CustomNames \cup {NoName} : NewBegin(p, custom))
              /\ UNCHANGED outsideCtx
        \/ NewStep(p) /\ UNCHANGED outsideCtx
        \/ KeepaliveResolves(p) /\ UNCHANGED outsideCtx
        \/ DockerdResolves(p) /\ UNCHANGED outsideCtx
        \/ ScopeExit(p) /\ UNCHANGED outsideCtx
        \/ WrapCall(p) /\ UNCHANGED outsideCtx
        \/ WrapContextArm(p) /\ UNCHANGED outsideCtx
        \/ (\E r \in TaskResults : WrapTaskArm(p, r)) /\ UNCHANGED outsideCtx

InitCtx ==
    /\ CtxInit({Owner})
    /\ RunInit(FALSE)
    /\ CliInit(FALSE)
    /\ FgInit(FALSE)
    /\ VmInit(FALSE)
    /\ EvInit(FALSE)
    /\ StepInit(FALSE)
    /\ ProvInit(FALSE)
    /\ ChInit(FALSE)
    /\ GcInit(FALSE)
    /\ SpawnInit(FALSE)

\* One process creating and using a DockerContext.
SpecCtx == InitCtx /\ [][CtxNext]_vars

\* Two processes, each creating and using a DockerContext, on a file system
\* that holds no context yet.
InitCtxTwo ==
    /\ CtxInit(Procs)
    /\ \A h \in Hashes : meta_dir[h] = NoDir /\ tls_dir[h] = NoDir
    /\ RunInit(FALSE)
    /\ CliInit(FALSE)
    /\ FgInit(FALSE)
    /\ VmInit(FALSE)
    /\ EvInit(FALSE)
    /\ StepInit(FALSE)
    /\ ProvInit(FALSE)
    /\ ChInit(FALSE)
    /\ GcInit(FALSE)
    /\ SpawnInit(FALSE)

SpecCtxTwo == InitCtxTwo /\ [][CtxNext]_vars

InitRun ==
    /\ CtxInit({Owner})
    /\ RunInit(TRUE)
    /\ CliInit(FALSE)
    /\ FgInit(FALSE)
    /\ VmInit(FALSE)
    /\ EvInit(FALSE)
    /\ StepInit(FALSE)
    /\ ProvInit(FALSE)
    /\ ChInit(FALSE)
    /\ GcInit(FALSE)
    /\ SpawnInit(FALSE)

\* One process running run_task.
SpecRun == InitRun /\ [][RunNext]_vars

InitCli ==
    /\ CtxInit({Owner})
    /\ RunInit(FALSE)
    /\ CliInit(TRUE)
    /\ FgInit(FALSE)
    /\ VmInit(FALSE)
    /\ EvInit(FALSE)
    /\ StepInit(FALSE)
    /\ ProvInit(FALSE)
    /\ ChInit(FALSE)
    /\ GcInit(FALSE)
    /\ SpawnInit(FALSE)

\* The launcher and the worker of --while, with the watched process.
SpecCli == InitCli /\ [][CliNext]_vars

\* The same, with the worker scheduled: the runtime polls the worker's select!
\* whenever one of its futures can make progress, and an exiting process closes
\* its descriptors.
FairSpecCli == SpecCli /\ WF_vars(WorkerNext)

InitFg ==
    /\ CtxInit({Owner})
    /\ RunInit(FALSE)
    /\ CliInit(FALSE)
    /\ FgInit(TRUE)
    /\ VmInit(FALSE)
    /\ EvInit(FALSE)
    /\ StepInit(FALSE)
    /\ ProvInit(FALSE)
    /\ ChInit(FALSE)
    /\ GcInit(FALSE)
    /\ SpawnInit(FALSE)

SpecFg == InitFg /\ [][FgNext]_vars

SpecFgWindows == InitFg /\ [][FgNextWindows]_vars

InitVm ==
    /\ CtxInit({})
    /\ RunInit(FALSE)
    /\ CliInit(FALSE)
    /\ FgInit(FALSE)
    /\ VmInit(TRUE)
    /\ EvInit(FALSE)
    /\ StepInit(FALSE)
    /\ ProvInit(FALSE)
    /\ ChInit(FALSE)
    /\ GcInit(FALSE)
    /\ SpawnInit(FALSE)

SpecVm == InitVm /\ [][VmNext]_vars

\* Time passes, and the watchdog acts when it is due.
FairSpecVm == SpecVm /\ WF_vars(Tick) /\ WF_vars(WatchdogFires)

InitEv ==
    /\ CtxInit({})
    /\ RunInit(FALSE)
    /\ CliInit(FALSE)
    /\ FgInit(FALSE)
    /\ VmInit(FALSE)
    /\ EvInit(TRUE)
    /\ StepInit(FALSE)
    /\ ProvInit(FALSE)
    /\ ChInit(FALSE)
    /\ GcInit(FALSE)
    /\ SpawnInit(FALSE)

SpecEv == InitEv /\ [][EvNext]_vars

\* Every attempt terminates and every sleep ends: the future is polled until
\* it is ready.
FairSpecEv == SpecEv /\ WF_vars(EvNext)

\* No process makes a DockerContext and nothing is on disk.
CtxOff ==
    /\ CtxInit({})
    /\ \A h \in Hashes : meta_dir[h] = NoDir /\ tls_dir[h] = NoDir

InitStep ==
    /\ CtxOff
    /\ RunInit(FALSE)
    /\ CliInit(FALSE)
    /\ FgInit(FALSE)
    /\ VmInit(FALSE)
    /\ EvInit(FALSE)
    /\ StepInit(TRUE)
    /\ ProvInit(FALSE)
    /\ ChInit(FALSE)
    /\ GcInit(FALSE)
    /\ SpawnInit(FALSE)

SpecStep == InitStep /\ [][StepsNext]_vars

InitProv ==
    /\ CtxOff
    /\ RunInit(FALSE)
    /\ CliInit(FALSE)
    /\ FgInit(FALSE)
    /\ VmInit(FALSE)
    /\ EvInit(FALSE)
    /\ StepInit(FALSE)
    /\ ProvInit(TRUE)
    /\ ChInit(FALSE)
    /\ GcInit(FALSE)
    /\ SpawnInit(FALSE)

SpecProv == InitProv /\ [][ProvNext]_vars

\* spawn keeps running: its calls return and its sleeps end.  Nothing is assumed
\* of the cloud.
FairSpecProv == SpecProv /\ WF_vars(ProvStep)

InitCh ==
    /\ CtxOff
    /\ RunInit(FALSE)
    /\ CliInit(FALSE)
    /\ FgInit(FALSE)
    /\ VmInit(FALSE)
    /\ EvInit(FALSE)
    /\ StepInit(FALSE)
    /\ ProvInit(FALSE)
    /\ ChInit(TRUE)
    /\ GcInit(FALSE)
    /\ SpawnInit(FALSE)

\* One operation on one channel.
SpecCh == InitCh /\ [][ChNext]_vars

InitGc ==
    /\ CtxOff
    /\ RunInit(FALSE)
    /\ CliInit(FALSE)
    /\ FgInit(FALSE)
    /\ VmInit(FALSE)
    /\ EvInit(FALSE)
    /\ StepInit(FALSE)
    /\ ProvInit(FALSE)
    /\ ChInit(FALSE)
    /\ GcInit(TRUE)
    /\ SpawnInit(FALSE)

\* Two invocations at the start of spawn, with the VMs that are around.
SpecGc == InitGc /\ [][GcNext]_vars

InitSpawn ==
    /\ CtxOff
    /\ RunInit(FALSE)
    /\ CliInit(FALSE)
    /\ FgInit(FALSE)
    /\ VmInit(FALSE)
    /\ EvInit(FALSE)
    /\ StepInit(TRUE)
    /\ ProvInit(FALSE)
    /\ ChInit(FALSE)
    /\ GcInit(FALSE)
    /\ SpawnInit(TRUE)

\* One call of spawn, with or without a step of the caller around it.
SpecSpawn == InitSpawn /\ [][SpawnNext]_vars

(***************************************************************************)
(* Claims                                                                  *)
(***************************************************************************)

C2_FailedNewLeavesNothing ==
    \A p \in Procs :
        ctxPc[p] = "newErr" =>
            \A h \in Hashes : meta_dir[h].by # p /\ tls_dir[h].by # p

\* The phases that have begun, in the order they began.
Begun == SelectSeq(trace, LAMBDA e : e[1] = "begin")

\* C3: the phases of bring-up begin in the order launch, port 22, ssh, otp,
\* background jobs, Docker port, publish; a phase begins only after the phase
\* before it has succeeded, and after a phase has failed no phase begins.  What
\* the later phases own (the background jobs, the context, the user task) is
\* there only when their phase has begun.
C3_PhasesStrictlySequential ==
    /\ Len(Begun) <= Len(PhaseOrder)
    /\ \A i \in 1..Len(Begun) : Begun[i][2] = PhaseOrder[i]
    /\ \A k \in 1..Len(trace) :
          trace[k][1] = "begin" =>
              /\ \A j \in 1..(k - 1) : trace[j][1] # "fail"
              /\ \A i \in 2..Len(PhaseOrder) :
                    trace[k][2] = PhaseOrder[i] =>
                        \E j \in 1..(k - 1) : trace[j] = <<"ok", PhaseOrder[i - 1]>>
    /\ \A k \in 1..Len(trace) : trace[k][1] = "fail" => k = Len(trace) /\ runPc = "done"
    /\ bg_jobs.keepalive # "unstarted" \/ bg_jobs.dockerd # "unstarted"
          => Len(Begun) >= 5
    /\ ctxPc[Owner] # "idle" => Len(Begun) = 7
    /\ task # "unstarted" => Len(Begun) = 7 /\ trace[Len(trace)] = <<"ok", "publish">>

\* C3 witness: the first five phases succeeded, the wait for the Docker port
\* failed, and publish never began.
C3_Witness ==
    /\ runPc = "done"
    /\ Len(Begun) = 6
    /\ trace[Len(trace)] = <<"fail", "dockerPort">>
    /\ ctxPc[Owner] = "idle"

\* C4: when the trimmed content of /fleeting/otp differs from the generated
\* one-time password, run_task has failed with "invalid otp", no background job
\* was started, DockerContext::new was never called and left nothing on disk,
\* and the user task was never started.
C4_OtpMismatchIsFatal ==
    (received_otp # NotRead /\ received_otp # otp) =>
        /\ runPc = "done"
        /\ runResult = <<"Err", "invalid otp">>
        /\ bg_jobs = [keepalive |-> "unstarted", dockerd |-> "unstarted"]
        /\ ctxPc[Owner] = "idle"
        /\ \A h \in Hashes : meta_dir[h].by # Owner /\ tls_dir[h].by # Owner
        /\ task = "unstarted"

\* C4 witness: a received password of the generated one's length, but another
\* one, was refused.
C4_Witness ==
    /\ runResult = <<"Err", "invalid otp">>
    /\ received_otp # otp
    /\ Len(received_otp) = Len(otp)

\* C5: the launcher exits 0 exactly when the worker published its context,
\* wrote the ready line and the launcher read it; in every other case in which
\* the launcher exits, it exits 1.
C5_LauncherExitsZeroIffReady ==
    launcherPc = "exited" =>
        /\ launcherExit \in {0, 1}
        /\ launcherExit = 0 <=>
              /\ message = "Some(ready)"
              /\ written.stdout = <<ReadyLine>>
              /\ ctxPc[Owner] \in {"held", "dropped"}

\* The artifact of p's context is on disk in full: meta.json and the three TLS
\* files, each as p wrote it.
ArtifactComplete(p) ==
    /\ ctxPc[p] # "idle"
    /\ MetaOf(p).exists
    /\ TlsOf(p).exists
    /\ \A f \in MetaFiles : <<f, p>> \in MetaOf(p).files
    /\ \A f \in TlsFiles : <<f, p>> \in TlsOf(p).files

\* The worker writes a line to its stdout in this step.
WorkerWritesStdout == written'.stdout # written.stdout

\* The launcher reads the ready line in this step.
LauncherReadsReady == message # "Some(ready)" /\ message' = "Some(ready)"

\* C6 as stated: the worker writes the ready line only when the artifact is on
\* disk in full, and the launcher reads the ready line only while the artifact
\* is on disk in full.
C6_LauncherReadsReadyOnlyWithArtifact ==
    /\ [][WorkerWritesStdout => ArtifactComplete(Owner) /\ ArtifactComplete(Owner)']_vars
    /\ [][LauncherReadsReady => ArtifactComplete(Owner)]_vars

\* C6 amended: the worker writes the ready line only when the artifact is on
\* disk in full, and the artifact stays on disk in full for as long as the
\* worker is in its monitoring loop.
C6_ReadyWrittenOnlyWithArtifact ==
    /\ [][WorkerWritesStdout => ArtifactComplete(Owner) /\ ArtifactComplete(Owner)']_vars
    /\ [](workerPc = "monitor" => ArtifactComplete(Owner))

\* C6 witness: the launcher has read the ready line while the worker monitors
\* its context, over a directory that was on disk before the run.
C6_Witness ==
    /\ message = "Some(ready)"
    /\ workerPc = "monitor"
    /\ TlsOf(Owner).by = "pre"
    /\ ArtifactComplete(Owner)

\* C7: when waitpid found the launcher or the watched process gone before the
\* ready line, the worker has returned Ok and exits with code 0, it logged the
\* warning, the bring-up was dropped where it was, no ready line was or will be
\* written, and nothing of a Docker context was put on disk.
C7_EarlyExitOfEitherPidAborts ==
    ((launcher_exited = "terminated" \/ watch_exited = "terminated")
        /\ written.stdout = <<>>) =>
        /\ workerPc \in {"exiting", "exited"}
        /\ workerResult[1] = "Ok"
        /\ workerExit = 0
        /\ \E k \in 1..Len(written.stderr) :
              written.stderr[k] =
                  IF launcher_exited = "terminated" THEN WarnLauncher ELSE WarnWatched
        /\ spawnPc = "bringup"
        /\ ctxPc[Owner] = "idle"
        /\ \A h \in Hashes : meta_dir[h].by # Owner /\ tls_dir[h].by # Owner

\* C7 witness: the launcher was killed during bring-up, waitpid found it gone,
\* and the worker has exited.
C7_Witness ==
    /\ launcher_exited = "terminated"
    /\ written.stdout = <<>>
    /\ workerPc = "exited"
    /\ launcherPc = "killed"

\* The worker has left its monitoring loop.
LeftMonitor == written.stdout # <<>> /\ workerPc \in {"exiting", "exited"}

C10_PidThenArgsThenWait ==
    /\ child_stdin.data # <<>> => launcherStdout = <<PidLine>>
    /\ (launcherPc \in {"waiting", "exited"} \/ message # "none") =>
          /\ launcherStdout = <<PidLine>>
          /\ child_stdin = [data |-> <<LaunchArgs>>, closed |-> TRUE]
    /\ (launcherPc = "waiting" /\ workerPc = "readArgs") => ENABLED WorkerReadArgs

\* C10 witness: the launcher waits for the ready line and the worker has read
\* its launch args and is bringing the VM up.
C10_Witness ==
    /\ launcherPc = "waiting"
    /\ launcherStdout = <<PidLine>>
    /\ workerPc = "waitingCtx"
    /\ spawnPc = "bringup"

\* C15: polling a DockerContext yields the keepalive handle's result whenever
\* that handle is resolved, the dockerd handle's result only when keepalive is
\* pending and dockerd is resolved, and is pending exactly when both are; the
\* error wrap() reports is the one poll yielded.
C15_PollPrefersKeepalive ==
    \A p \in Procs :
        LET k == keepalive_handle[p]
            d == dockerd_handle[p]
        IN  /\ k # "pending" => Poll(k, d) = k
            /\ (k = "pending" /\ d # "pending") => Poll(k, d) = d
            /\ Poll(k, d) = "pending" <=> (k = "pending" /\ d = "pending")
            /\ (wrapResult[p] # "none" /\ wrapResult[p][2] # "task") =>
                  wrapResult[p][3] = (IF k # "pending" THEN k ELSE d)

\* C15 witness: both handles were resolved when wrap() polled the context, and
\* wrap() reported the keepalive handle's error.
C15_Witness ==
    \E p \in Procs :
        /\ keepalive_handle[p] # "pending"
        /\ dockerd_handle[p] # "pending"
        /\ wrapResult[p] # "none"
        /\ wrapResult[p][3] = keepalive_handle[p]

IsModeCombination(command, while, worker) ==
    \/ command /\ ~while /\ ~worker
    \/ ~command /\ while /\ ~worker
    \/ ~command /\ while /\ worker

\* C11: for all eight combinations of (COMMAND present, --while present,
\* --worker set), Cli::run selects foreground iff (yes, no, no), launcher iff
\* (no, yes, no), worker iff (no, yes, yes), and every other combination ends in
\* a usage error reported through the argument parser, never in a panic and
\* never in one of the three modes.
C11_ModeSelection ==
    mode # "none" =>
        LET command == what_to_run.command
            while == what_to_run.while
            worker == what_to_run.worker
        IN  /\ mode = "foreground" <=> (command /\ ~while /\ ~worker)
            /\ mode = "launcher" <=> (~command /\ while /\ ~worker)
            /\ mode = "worker" <=> (~command /\ while /\ worker)
            /\ ~IsModeCombination(command, while, worker) =>
                  /\ mode = "usage"
                  /\ fgResult[1] = "usage"
                  /\ fgExit = 2

C13_ChildRunsAgainstPublishedContext ==
    /\ child.state # "none" =>
          /\ ctxPc[Owner] \in {"held", "dropped"}
          /\ child.env = ContextNameOf(Owner, custom_context_name)
          /\ child.env = ctxName[Owner]
    /\ (fgPc = "racing" /\ child.state = "running") =>
          /\ ctxPc[Owner] = "held"
          /\ ArtifactComplete(Owner)

\* C13 witness: the user command is running under a custom context name while
\* the race is undecided.
C13_Witness ==
    /\ fgPc = "racing"
    /\ child.state = "running"
    /\ custom_context_name # NoName
    /\ child.env = custom_context_name

\* C14: when SIGTERM or SIGINT is delivered during a steady-state foreground
\* run, the user's child process is reaped, the DockerContext is dropped, both
\* context directories are deleted, and the process exits with code 1.
C14_SignalReapsChildAndCleansUp ==
    (fgResult[1] = "signal" /\ child.state # "none") =>
        /\ child.state = "reaped"
        /\ ctxPc[Owner] = "dropped"
        /\ ~MetaOf(Owner).exists
        /\ ~TlsOf(Owner).exists
        /\ fgExit = 1

C19_VmSelfTerminates ==
    /\ [](vm = "armed" => sinceRefresh <= keepalive_timeout)
    /\ [][(vm # "terminated" /\ vm' = "terminated") =>
              (vm = "armed" /\ sinceRefresh = keepalive_timeout)]_vars
    /\ (vm = "armed" /\ kaPc = "stopped") ~> (vm = "terminated")

\* C19 witness: the owner stopped after keepalive() had refreshed, and the VM
\* was terminated when the timeout had passed since that refresh.
C19_Witness ==
    /\ vm = "terminated"
    /\ kaPc = "stopped"
    /\ kaRefreshed
    /\ sinceRefresh = keepalive_timeout

\* C20 as stated: the period of keepalive() is strictly less than one third of
\* the timeout substituted into the bootstrap script.
C20_IntervalBelowThirdOfTimeout ==
    vm # "none" => 3 * KEEPALIVE_INTERVAL < keepalive_timeout

\* C20: the period of keepalive() is exactly one third of the timeout
\* substituted into the bootstrap script, which is KEEPALIVE_TIMEOUT.
C20_IntervalIsThirdOfTimeout ==
    vm # "none" =>
        /\ keepalive_timeout = KEEPALIVE_TIMEOUT
        /\ 3 * KEEPALIVE_INTERVAL = keepalive_timeout

\* C20 witness: keepalive() has slept for its whole period against a VM whose
\* watchdog got the timeout from the bootstrap script.
C20_Witness ==
    /\ vm = "armed"
    /\ kaPc = "sleeping"
    /\ kaClock = KEEPALIVE_INTERVAL
    /\ keepalive_timeout = 3 * kaClock

\* C21: eventually() returns Ok(v) at the first attempt that yields Ok(v) and
\* Err(e) at the first attempt that yields PermErr(e); in both cases that
\* attempt is the last one made and no sleep follows it.
C21_ReturnsAtFirstOkOrPermErr ==
    \A i \in 1..Len(attempts) :
        attempts[i].outcome \in {"Ok", "PermErr"} =>
            /\ \A j \in 1..(i - 1) : attempts[j].outcome = "TempErr"
            /\ i = Len(attempts)
            /\ ~attempts[i].slept
            /\ evPc = "done"
            /\ now = attempts[i].end
            /\ evResult = <<IF attempts[i].outcome = "Ok" THEN "Ok" ELSE "Err", Yielded(i)>>

\* C21 witness: the third attempt yielded a permanent error after two temporary
\* ones, and eventually() returned it.
C21_Witness ==
    /\ evPc = "done"
    /\ Len(attempts) = 3
    /\ attempts[3].outcome = "PermErr"
    /\ evResult = <<"Err", Yielded(3)>>

\* C22: after an attempt yields TempErr(e) at time t, eventually() sleeps the
\* delay and makes another attempt iff t + delay does not exceed the deadline,
\* and otherwise returns Err(e), the error of the last attempt made; attempts
\* are numbered from 1, one more per attempt.
C22_TempErrSleepsIffFits ==
    /\ attempt_no = Len(attempts)
    /\ \A i \in 1..Len(attempts) :
          /\ attempts[i].no = i
          /\ attempts[i].outcome = "TempErr" =>
                /\ attempts[i].slept <=> (attempts[i].end + sleep_between <= deadline)
                /\ attempts[i].slept =>
                      IF i = Len(attempts)
                        THEN evPc = "sleeping" /\ now = attempts[i].end + evClock
                        ELSE attempts[i + 1].start = attempts[i].end + sleep_between
                /\ ~attempts[i].slept =>
                      /\ i = Len(attempts)
                      /\ evPc = "done"
                      /\ now = attempts[i].end
                      /\ evResult = <<"Err", Yielded(i)>>

\* C22 witness: an attempt failed with the delay ending exactly at the deadline
\* and was followed by another attempt, which failed and was the last.
C22_Witness ==
    /\ evPc = "done"
    /\ Len(attempts) >= 2
    /\ attempts[Len(attempts) - 1].end + sleep_between = deadline
    /\ attempts[Len(attempts)].outcome = "TempErr"
    /\ evResult = <<"Err", Yielded(Len(attempts))>>

\* C23: with a discrete clock and sleeps that last exactly the delay, no attempt
\* other than the first starts after the deadline, and eventually() returns no
\* later than the deadline plus the duration of one attempt.
C23_ReturnsWithinDeadlinePlusAttempt ==
    /\ \A i \in 2..Len(attempts) : attempts[i].start <= deadline
    /\ evPc = "done" =>
          LET last == attempts[Len(attempts)]
          IN  /\ now <= deadline + (last.end - last.start)
              /\ now <= deadline + MaxAttemptSecs

\* C23 witness: an attempt after the first started exactly at the deadline,
\* took as long as an attempt can, and eventually() returned then.
C23_Witness ==
    /\ evPc = "done"
    /\ Len(attempts) >= 2
    /\ attempts[Len(attempts)].start = deadline
    /\ now = deadline + MaxAttemptSecs

\* C24: DockerContext::new fails with an "already exists" error when the meta
\* directory of the context name already exists, and then it creates,
\* overwrites and removes nothing: the meta and tls directories that were there
\* before are unchanged, in that step and ever after.
C24_ExistingContextIsRefusedUntouched ==
    /\ [][\A p \in Procs :
             (ctxPc[p] = "check" /\ MetaOf(p).exists) =>
                 /\ ctxPc'[p] = "newErr"
                 /\ ctxErr'[p] = "already exists"
                 /\ UNCHANGED <<meta_dir, tls_dir>>]_vars
    /\ [](\A p \in Procs :
             ctxErr[p] = "already exists" =>
                 /\ ctxPc[p] = "newErr"
                 /\ MetaOf(p) = PreDir(MetaFiles)
                 /\ TlsOf(p) = PreDir(TlsFiles)
                 /\ \A h \in Hashes : meta_dir[h].by # p /\ tls_dir[h].by # p)

\* C24 witness: new() was refused for a name whose context was on disk in
\* full, and the directories are as they were.
C24_Witness ==
    /\ ctxErr[Owner] = "already exists"
    /\ MetaOf(Owner) = PreDir(MetaFiles)
    /\ TlsOf(Owner) = PreDir(TlsFiles)

\* The phase has begun.
HasBegun(ph) == \E i \in 1..Len(trace) : trace[i] = <<"begin", ph>>

\* Nothing of a Docker context of the owner is on disk or in memory.
NothingPublished ==
    /\ ctxPc[Owner] = "idle"
    /\ \A h \in Hashes : meta_dir[h].by # Owner /\ tls_dir[h].by # Owner

\* C25: when the keepalive activity fails while bring-up waits for the Docker
\* port, bring-up fails with the keepalive's error, the wait for the port is
\* abandoned, and no context is published.
C25_KeepaliveFailureAbortsDockerWait ==
    (bg_jobs.keepalive \in JobEnds /\ ~HasBegun("publish")) =>
        /\ runPc = "done"
        /\ runResult = <<bg_jobs.keepalive, "keepalive">>
        /\ trace[Len(trace)] = <<"fail", "dockerPort">>
        /\ task = "unstarted"
        /\ NothingPublished

\* C25 witness: keepalive returned an error after some attempts on the Docker
\* port had failed, and run_task returned that error.
C25_Witness ==
    /\ runResult = <<"Err", "keepalive">>
    /\ trace[Len(trace)] = <<"fail", "dockerPort">>
    /\ clock > ConnectTimeoutSecs
    /\ bg_jobs.dockerd = "running"

\* C26: when every connect to port 22 fails or times out until the deadline has
\* passed, run_task fails with "Could not open tcp stream in the deadline", no
\* SSH session is opened and no context is published; the wait never outlasts
\* the deadline by more than one attempt and its sleep; and a connect that
\* succeeds ends the wait in that step.
C26_TcpWaitEndsAtDeadline ==
    /\ [](runResult[2] = "Could not open tcp stream in the deadline" =>
             /\ runResult[1] = "Err"
             /\ runPc = "done"
             /\ clock > DeadlineSecs
             /\ trace[Len(trace)] = <<"fail", "tcp22">>
             /\ ~HasBegun("ssh")
             /\ NothingPublished)
    /\ [](runPc = "tcp" => clock <= DeadlineSecs + ConnectTimeoutSecs + RetrySleepSecs)
    /\ [][runPc = "tcp" =>
             /\ clock > DeadlineSecs =>
                   runResult' = <<"Err", "Could not open tcp stream in the deadline">>
             /\ clock <= DeadlineSecs =>
                   \/ runPc' = "handshake" /\ HasBegun("ssh")'
                   \/ runPc' = "tcp" /\ clock' > clock /\ runResult' = runResult]_vars

\* C26 witness: the last connect began exactly at the deadline and timed out,
\* and run_task failed.
C26_Witness ==
    /\ runResult = <<"Err", "Could not open tcp stream in the deadline">>
    /\ clock = DeadlineSecs + ConnectTimeoutSecs + RetrySleepSecs

\* C27: a rejected public-key attempt is retried after the sleep as long as
\* the deadline has not passed and then becomes the fatal "Could not auth via
\* SSH" error, while a transport error on any attempt fails run_task in that
\* step, with no further attempt.
C27_AuthRetriesRejectionUntilDeadline ==
    /\ [](runResult[2] = "Could not auth via SSH in XYZ seconds" =>
             runResult[1] = "Err" /\ runPc = "done" /\ clock > DeadlineSecs)
    /\ [](runResult[2] = "failure while attempting auth" =>
             /\ runResult[1] = "Err"
             /\ runPc = "done"
             /\ trace[Len(trace)] = <<"fail", "ssh">>
             /\ ~HasBegun("otp"))
    /\ [][runPc = "auth" =>
             /\ clock > DeadlineSecs =>
                   runResult' = <<"Err", "Could not auth via SSH in XYZ seconds">>
             /\ clock <= DeadlineSecs =>
                   \/ runPc' = "otp"
                   \/ runPc' = "auth" /\ clock' >= clock + RetrySleepSecs
                         /\ runResult' = runResult
                   \/ runPc' = "done"
                         /\ runResult' = <<"Err", "failure while attempting auth">>]_vars

\* C27 witness: the last attempt began exactly at the deadline, took as long as
\* an attempt can, was rejected, and run_task failed after the sleep.
C27_Witness ==
    /\ runResult = <<"Err", "Could not auth via SSH in XYZ seconds">>
    /\ clock = DeadlineSecs + MaxAuthSecs + RetrySleepSecs

\* C29: after any balanced sequence of start/next/end in any nesting depth the
\* current step is the step that was current before the outermost start, None
\* when there was none: as long as no Drop has panicked, the current step is
\* the step of the innermost handle alive, each handle remembers as its
\* parent the step that was current before its start, a handle that goes away
\* leaves that step as the current one, and with no handle alive the current
\* step is None.
C29_BalancedStepsRestoreCurrent ==
    /\ [](~stepPanic =>
             /\ CURRENT_STEP = IF handles = <<>> THEN None
                               ELSE handles[Len(handles)].step
             /\ \A i \in 1..Len(handles) :
                   /\ arena[handles[i].step].parent = handles[i].before
                   /\ handles[i].before = IF i = 1 THEN None ELSE handles[i - 1].step)
    /\ [][(~stepPanic' /\ Len(handles') < Len(handles)) =>
             \E i \in 1..Len(handles) :
                 /\ handles' = Without(handles, i)
                 /\ CURRENT_STEP' = handles[i].before]_vars

\* C29 witness: an outer start, an inner start with next and end inside it, and
\* the outer handle moved on and ended: five Steps were made, no handle is
\* alive, and the current step is None again.
C29_Witness ==
    /\ ~stepPanic
    /\ handles = <<>>
    /\ CURRENT_STEP = None
    /\ Len(arena) = 5
    /\ \E k \in 1..5 : arena[k].parent # None /\ arena[k].number = 2

\* C28: every waiting point of bring-up is bounded by a deadline, the wait
\* loops of the providers included, so spawn always terminates, with success
\* or with failure.
C28_SpawnTerminates == <>(provPc = "done")

\* C30: for every set of architectures reported for the EC2 instance type, the
\* image selection returns the arm64 image when Arm64 is supported, otherwise
\* the amd64 image when X86_64 is supported, and otherwise fails with
\* "unsupported instance type architectures"; when it fails no security group
\* has been created and no instance launched.
C30_ImageSelectionIsTotal ==
    provider = "ec2" =>
        /\ image_id # "none" =>
              /\ "Arm64" \in instance_type_archs => image_id = Arm64Image
              /\ "Arm64" \notin instance_type_archs =>
                    "X8664" \in instance_type_archs /\ image_id = Amd64Image
        /\ provResult[2] = Unsupported =>
              /\ provResult[1] = "Err"
              /\ provPc = "done"
              /\ instance_type_archs \cap {"Arm64", "X8664"} = {}
              /\ image_id = "none"
              /\ security_group = "none"
              /\ instance = "none"
        /\ (provPc \notin {"config", "lookup"}
              /\ provResult[2] \notin {"get_caller_identity", "describe_instance_types",
                                       "expected exactly one: instance_type"}) =>
              (image_id = "none") <=> (provResult[2] = Unsupported)

\* C30 witness: the instance type supports neither Arm64 nor X86_64, and spawn
\* failed with the unsupported error.
C30_Witness ==
    /\ provider = "ec2"
    /\ instance_type_archs = {"I386", "X8664Mac"}
    /\ provResult = <<"Err", Unsupported>>

\* C33: next() replaces the current step by a sibling with the same parent and
\* the same total and a number one higher; every step ever made current has
\* 1 <= number <= total; and next() is never applied to a step whose number
\* equals its total.
C33_NextMakesNextSibling ==
    /\ [](\A s \in 1..Len(arena) :
             1 <= arena[s].number /\ arena[s].number <= arena[s].total)
    /\ [][\A i \in 1..Len(handles) :
             (StepNext(i) /\ ~stepPanic') =>
                 /\ arena[handles[i].step].number < arena[handles[i].step].total
                 /\ CURRENT_STEP' = Len(arena')
                 /\ CURRENT_STEP' # handles[i].step
                 /\ arena'[CURRENT_STEP'].parent = arena[handles[i].step].parent
                 /\ arena'[CURRENT_STEP'].total = arena[handles[i].step].total
                 /\ arena'[CURRENT_STEP'].number
                        = arena[handles[i].step].number + 1]_vars

\* C33 witness: a start announcing three steps was moved on twice, so that the
\* current step is number 3 of 3, after its siblings 1 and 2 of the same
\* parent.
C33_Witness ==
    /\ ~stepPanic
    /\ Len(arena) >= 3
    /\ CURRENT_STEP = Len(arena)
    /\ arena[CURRENT_STEP].number = 3
    /\ arena[CURRENT_STEP].total = 3
    /\ \E a, b \in 1..Len(arena) :
          /\ arena[a].number = 1 /\ arena[b].number = 2
          /\ arena[a].total = 3 /\ arena[b].total = 3
          /\ arena[a].parent = arena[CURRENT_STEP].parent
          /\ arena[b].parent = arena[CURRENT_STEP].parent

\* C37: eventually() always makes at least one attempt, also when total_timeout
\* is zero, and it terminates whenever every attempt terminates and the delay
\* is positive: it has made an attempt whenever it has returned, it makes at
\* most one attempt per delay that fits before the deadline and one more, and
\* it eventually returns.
C37_AttemptsOnceAndTerminates ==
    /\ [](evPc = "done" =>
             /\ Len(attempts) >= 1
             /\ attempts[1].outcome # "none")
    /\ [](sleep_between > 0 =>
             Len(attempts) <= (total_timeout \div sleep_between) + 1)
    /\ (sleep_between > 0) => <>(evPc = "done")

\* C37 witness: with total_timeout zero the one attempt was made, it yielded a
\* temporary error, and eventually() returned that error.
C37_Witness ==
    /\ total_timeout = 0
    /\ evPc = "done"
    /\ Len(attempts) = 1
    /\ attempts[1].outcome = "TempErr"
    /\ evResult = <<"Err", Yielded(1)>>

\* C40: the process exit code produced by run_user_command equals the child's
\* exit code for every code the child can report; a non-zero child exit code
\* is never turned into process exit code 0 by the truncation to 8 bits.
C40_ExitCodeIsChildCode ==
    (mode = "foreground" /\ fgPc = "done" /\ child.state = "reaped"
        /\ child.code # -1) =>
        /\ fgResult = <<"Ok", child.code>>
        /\ fgExit = child.code
        /\ child.code # 0 => fgExit # 0

\* C35: when two processes call DockerContext::new with the same context name,
\* they never both hold a DockerContext of that name, and as long as one of
\* them holds its DockerContext the artifact it published is on disk in full,
\* as it wrote it, whatever the other process does or drops.
C35_SameNameIsExclusive ==
    \A p, q \in Procs :
        (p # q /\ ctxName[p] # NoName /\ ctxName[p] = ctxName[q]) =>
            /\ ~(Holds(p) /\ Holds(q))
            /\ Holds(p) => ArtifactComplete(p)

\* C36: a tls directory that was on disk before DockerContext::new was called,
\* with no meta directory for the same name hash, stays as it was: new does not
\* overwrite its files and Drop does not delete it.
C36_PreexistingTlsDirIsLeftAlone ==
    [][\A h \in Hashes :
          tls_dir[h] = PreDir(TlsFiles) => tls_dir'[h] = tls_dir[h]]_vars

\* The mode of a stream, and the lines logged for it, in order.
ModeOf(s) == IF s = "stdout" THEN stdout_mode ELSE stderr_mode

LoggedOf(s) ==
    LET sel == SelectSeq(logged, LAMBDA e : e[1] = s)
    IN  [i \in 1..Len(sel) |-> sel[i][2]]

\* The newline-terminated lines of a byte sequence, read byte by byte; `cur`
\* is the line read so far.  What follows the last newline is no line.
RECURSIVE SplitLines(_, _)
SplitLines(bytes, cur) ==
    IF bytes = <<>> THEN <<>>
    ELSE IF Head(bytes) = "\n" THEN <<cur>> \o SplitLines(Tail(bytes), <<>>)
    ELSE SplitLines(Tail(bytes), Append(cur, Head(bytes)))

TerminatedLines(bytes) == SplitLines(bytes, <<>>)

\* The lines before the first one that is not UTF-8.
RECURSIVE DecodablePrefix(_)
DecodablePrefix(lines) ==
    IF lines = <<>> \/ ~from_utf8(Head(lines)) THEN <<>>
    ELSE <<Head(lines)>> \o DecodablePrefix(Tail(lines))

\* C31: when exec_to_completion returns an outcome, a Capture stream's field
\* holds exactly the concatenation of all chunks of that stream in arrival
\* order, those after the exit status included, and a Log stream's field is
\* None; for a Log stream the lines logged are exactly the newline-terminated
\* lines of the bytes received, in order, however the bytes were split into
\* chunks (in every state: the terminated lines received so far, up to a line
\* that cannot be decoded), and nothing is logged for a Capture stream.
C31_CaptureConcatenatesLogSplitsLines ==
    /\ \A s \in Streams :
          LoggedOf(s) = IF ModeOf(s) = "Log"
                          THEN DecodablePrefix(TerminatedLines(received[s]))
                          ELSE <<>>
    /\ (chPc = "done" /\ execOutcome.kind = "Ok") =>
          /\ execOutcome.stdout = IF stdout_mode = "Capture"
                                    THEN SomeBuf(received.stdout) ELSE NoneBuf
          /\ execOutcome.stderr = IF stderr_mode = "Capture"
                                    THEN SomeBuf(received.stderr) ELSE NoneBuf
          /\ \A s \in Streams :
                ModeOf(s) = "Log" => LoggedOf(s) = TerminatedLines(received[s])

\* C31 witness: stdout was captured and stderr logged; the line "a" of stderr
\* came in two messages, a message came after the exit status, and the
\* outcome holds the byte of stdout.
C31_Witness ==
    /\ chPc = "done"
    /\ execOutcome.kind = "Ok"
    /\ stdout_mode = "Capture"
    /\ stderr_mode = "Log"
    /\ lateData
    /\ chunks.stderr = 2
    /\ received.stderr = <<"a", "\n">>
    /\ logged = <<<<"stderr", <<"a">>>>>>
    /\ execOutcome.stdout = SomeBuf(<<"a">>)

\* C32: exec_to_completion returns an error when err_on_nonzero is set and the
\* exit status is not zero, and when the channel closes without an exit
\* status; exec_passthru and read_file succeed only with exit status 0;
\* exec_passthru returns the error with its context added, read_file without;
\* and read_file returns the captured stdout and nothing of stderr.
C32_ErrorsOfExec ==
    chPc = "done" =>
        /\ chCode = NoCode => execOutcome.kind = "Err"
        /\ (err_on_nonzero /\ chCode # 0) => execOutcome.kind = "Err"
        /\ execOutcome.kind = "Ok" => execOutcome.code = chCode
        /\ chResult.kind = execOutcome.kind
        /\ (caller \in {"exec_passthru", "read_file"} /\ chResult.kind = "Ok") =>
              chCode = 0
        /\ chResult.kind = "Err" =>
              /\ chResult.msg = execOutcome.msg
              /\ chResult.context = IF caller = "exec_passthru" THEN TheContext ELSE ""
        /\ chResult.kind = "Ok" =>
              chResult.value = IF caller = "read_file" THEN received.stdout ELSE <<>>

\* C32 witness: exec_passthru ran a command that ended with exit status 1 and
\* returned the error with its context.
C32_Witness ==
    /\ chPc = "done"
    /\ caller = "exec_passthru"
    /\ chCode = 1
    /\ chResult = [kind |-> "Err", value |-> <<>>, msg |-> "remote command returned",
                   context |-> TheContext]

\* The bytes of a stream that are not newlines, and the bytes of the lines
\* logged for it.
ContentLen(bytes) == Len(SelectSeq(bytes, LAMBDA b : b # "\n"))

RECURSIVE SumLen(_)
SumLen(lines) == IF lines = <<>> THEN 0 ELSE Len(Head(lines)) + SumLen(Tail(lines))

\* C39: for a stream in Log mode, every byte received before the channel
\* closed has been logged when exec_to_completion returns, a last line without
\* a newline included: nothing is left in the buffer.
C39_LogLosesNoBytes ==
    (chPc = "done" /\ execOutcome.kind = "Ok") =>
        /\ stdout_mode = "Log" =>
              /\ stdout_buf = <<>>
              /\ SumLen(LoggedOf("stdout")) = ContentLen(received.stdout)
        /\ stderr_mode = "Log" =>
              /\ stderr_buf = <<>>
              /\ SumLen(LoggedOf("stderr")) = ContentLen(received.stderr)

\* C34: the garbage collection at the start of spawn deletes only VMs whose
\* name starts with "fleeting-" and that are TERMINATED (GCE) or Stopped
\* (Multipass) when they are deleted: never a VM of another name, and never
\* the running VM of another invocation that is running at the same time.
C34_GcDeletesOnlyStoppedFleetingVms ==
    \A d \in deletions :
        /\ starts_with(d.name, "fleeting-")
        /\ d.state = "Stopped"
        /\ ~(d.state = "Running" /\ d.owner \in Invocations /\ d.owner # d.by)

\* C38: in every execution of a provider's spawn the step handles are released
\* in strict LIFO order (the handle that goes away is the one made last, and
\* its step is the current one), so the assertion of Drop never fails; while
\* spawn runs the current step is one of the steps spawn announced; and when
\* spawn has returned, early with an error or at its end, the current step is
\* the one that was current before spawn's start().
C38_SpawnReleasesStepsInOrder ==
    /\ [](~stepPanic /\ stepsPc # "panicked")
    /\ [](stepsPc = "running" =>
             /\ CURRENT_STEP = SpawnHandle.step
             /\ arena[CURRENT_STEP].parent = spawnBefore
             /\ arena[CURRENT_STEP].total = SpawnSteps(spawnProvider))
    /\ [](stepsPc = "returned" =>
             /\ CURRENT_STEP = spawnBefore
             /\ Len(handles) = IF spawnBefore = None THEN 0 ELSE 1)
    /\ [][Len(handles') <= Len(handles) =>
             /\ SubSeq(handles', 1, Len(handles) - 1)
                    = SubSeq(handles, 1, Len(handles) - 1)
             /\ CURRENT_STEP = handles[Len(handles)].step]_vars

\* C38 witness: Ec2::spawn was called inside a step of the caller, failed in
\* its third step and returned the error, and the caller's step is the
\* current one again.
C38_Witness ==
    /\ stepsPc = "returned"
    /\ spawnResult = "Err"
    /\ spawnProvider = "ec2"
    /\ spawnBefore # None
    /\ CURRENT_STEP = spawnBefore
    /\ Len(arena) = 4
    /\ arena[4].number = 3

====
